---- MODULE Spec2Model ----
(***************************************************************************)
(* A model of the Cursor chat extraction pipeline of anyspecs-cli          *)
(* (src/cursor_chat_export.py): the three record readers, workspace_info,  *)
(* the session assembler extract_chats, the project-name inferencer, the   *)
(* formatters (format_chat_for_export, the markdown and html generators,   *)
(* the JSON text, the line-by-line layout of a message) and the filters    *)
(* and export loop of export_chats; of the Claude history exporter         *)
(* (src/export_claude_history.py) with its upload; and of the AI           *)
(* configuration manager (src/anyspecs/config/ai_config.py) with its       *)
(* config file and its .env file.                                          *)
(*                                                                         *)
(* JSON values are tagged records, so that a field may hold a string, a    *)
(* number, null, a list, or be missing.  Python dictionaries that the code *)
(* only looks up are functions; the sessions mapping, whose insertion      *)
(* order decides the output order, is a sequence.                          *)
(***************************************************************************)
EXTENDS Integers, Sequences, FiniteSets, TLC

----------------------------------------------------------------------------
(* Bounds of the model *)

\* timestamps (createdAt, lastUpdatedAt) range over 0..MaxTs, or are null
MaxTs == 1

\* a path has at most MaxSegs components after the leading separator
MaxSegs == 4

\* a record given to the formatters has at most MaxMsgs messages
MaxMsgs == 2

\* a history file has at most MaxLines lines
MaxLines == 2

\* one AIConfigManager receives at most MaxCalls calls
MaxCalls == 3

\* the content of a message laid out line by line has at most MaxProse lines
MaxProse == 3

\* an export selects at most MaxSel sessions
MaxSel == 2

----------------------------------------------------------------------------
(* JSON values *)

JMissing == [k |-> "missing", s |-> "", n |-> 0]   \* the key is not in the dict
JNull    == [k |-> "null",    s |-> "", n |-> 0]   \* None
JList    == [k |-> "list",    s |-> "", n |-> 0]   \* a non-empty JSON list
JStr(s)  == [k |-> "str",     s |-> s,  n |-> 0]
JNum(n)  == [k |-> "num",     s |-> "", n |-> n]

\* Python truthiness of a value obtained with dict.get (missing reads as None)
Truthy(v) ==
    CASE v.k = "str"  -> v.s # ""
      [] v.k = "num"  -> v.n # 0
      [] v.k = "list" -> TRUE
      [] OTHER        -> FALSE

IsStr(v) == v.k = "str"

\* dict.get(key, default)
Get(v, default) == IF v.k = "missing" THEN default ELSE v

\* a or b
Or(a, b) == IF Truthy(a) THEN a ELSE b

RECURSIVE LStrip(_)
LStrip(s) ==
    IF Len(s) > 0 /\ SubSeq(s, 1, 1) = " " THEN LStrip(SubSeq(s, 2, Len(s))) ELSE s

RECURSIVE RStrip(_)
RStrip(s) ==
    IF Len(s) > 0 /\ SubSeq(s, Len(s), Len(s)) = " "
    THEN RStrip(SubSeq(s, 1, Len(s) - 1)) ELSE s

\* str.strip()
Strip(s) == RStrip(LStrip(s))

\* s[:8]
Take8(s) == IF Len(s) <= 8 THEN s ELSE SubSeq(s, 1, 8)

\* f"Chat {cid[:8]}"
ChatTitle(cid) == "Chat " \o Take8(cid)

----------------------------------------------------------------------------
(* Results of sqlite and of the readers *)

NoExc == "none"

\* j(cur, table, key): the decoded value of the row, None when the row is
\* absent or its value does not parse, and sqlite3.OperationalError (a
\* DatabaseError) out of cur.execute when the table does not exist.
\* A row is [raw |-> "absent" | "bad" | "list" | "obj", ...payload].
j(tableExists, row) ==
    IF ~tableExists THEN [exc |-> "DatabaseError", none |-> TRUE, row |-> row]
    ELSE IF row.raw \in {"absent", "bad"}
         THEN [exc |-> NoExc, none |-> TRUE, row |-> row]
         ELSE [exc |-> NoExc, none |-> FALSE, row |-> row]

\* one yielded tuple (composerId, role, text, db_path)
Item(cid, role, text, db) == [cid |-> cid, role |-> role, text |-> text, db |-> db]

Yield(acc, item) == [items |-> Append(acc.items, item), raised |-> acc.raised]
Raise(acc, exc)  == [items |-> acc.items, raised |-> exc]
Nothing == [items |-> <<>>, raised |-> NoExc]

----------------------------------------------------------------------------
(* iter_bubbles_from_disk_kv *)

\* the body of the loop over the rows 'bubbleId:<cid>:<bubbleId>'
BubbleRow(acc, r, db) ==
    IF r.raw \in {"null", "bad"} THEN acc                \* continue
    ELSE IF r.raw # "obj" THEN Raise(acc, "AttributeError")   \* b.get on a non-dict
    ELSE LET t == Or(Or(Get(r.text, JNull), Get(r.richText, JNull)), JStr(""))
         IN IF ~IsStr(t) THEN Raise(acc, "AttributeError")    \* .strip() on a non-str
            ELSE IF Strip(t.s) = "" THEN acc
            ELSE Yield(acc, Item(r.cid,
                                 IF r.type = JNum(1) THEN "user" ELSE "assistant",
                                 JStr(Strip(t.s)), db))

RECURSIVE ScanBubbles(_, _, _, _)
ScanBubbles(rows, i, acc, db) ==
    IF i > Len(rows) \/ acc.raised # NoExc THEN acc
    ELSE ScanBubbles(rows, i + 1, BubbleRow(acc, rows[i], db), db)

CheckDiskKVTable(store) == store.hasDiskKV

iter_bubbles_from_disk_kv(store) ==
    IF ~CheckDiskKVTable(store) THEN Nothing
    ELSE ScanBubbles(store.bubbles, 1, Nothing, store.id)

----------------------------------------------------------------------------
(* iter_composer_data *)

\* yields (composerId, composerData, db_path); a value that does not parse is
\* skipped, any JSON value that parses is yielded
ComposerRow(acc, r, db) ==
    IF r.raw \in {"null", "bad"} THEN acc
    ELSE Yield(acc, [cid |-> r.cid, data |-> r, db |-> db])

RECURSIVE ScanComposerRows(_, _, _, _)
ScanComposerRows(rows, i, acc, db) ==
    IF i > Len(rows) THEN acc
    ELSE ScanComposerRows(rows, i + 1, ComposerRow(acc, rows[i], db), db)

iter_composer_data(store) ==
    IF ~CheckDiskKVTable(store) THEN Nothing
    ELSE ScanComposerRows(store.composers, 1, Nothing, store.id)

----------------------------------------------------------------------------
(* iter_chat_from_item_table *)

\* one bubble of one tab of the chatdata document
TabBubble(acc, tabId, b, db) ==
    IF ~Truthy(b.type) THEN acc
    ELSE LET text == IF b.text.k # "missing" THEN b.text
                     ELSE IF b.content.k # "missing" THEN b.content
                     ELSE JStr("")
         IN IF Truthy(text) /\ IsStr(text)
            THEN Yield(acc, Item(tabId,
                                 IF b.type = JStr("user") THEN "user" ELSE "assistant",
                                 text, db))
            ELSE acc

RECURSIVE ScanTabBubbles(_, _, _, _, _)
ScanTabBubbles(bubbles, i, acc, tabId, db) ==
    IF i > Len(bubbles) THEN acc
    ELSE ScanTabBubbles(bubbles, i + 1, TabBubble(acc, tabId, bubbles[i], db), tabId, db)

RECURSIVE ScanTabs(_, _, _, _)
ScanTabs(tabs, i, acc, db) ==
    IF i > Len(tabs) THEN acc
    ELSE ScanTabs(tabs, i + 1,
                  ScanTabBubbles(tabs[i].bubbles, 1, acc,
                                 Get(tabs[i].tabId, JStr("unknown")).s, db), db)

\* one message of one composer: the role and the content are passed on as read
ComposerMsg(acc, compId, m, db) ==
    LET role    == Get(m.role, JStr("unknown"))
        content == Get(m.content, JStr(""))
    IN IF Truthy(content) THEN Yield(acc, Item(compId, role.s, content, db)) ELSE acc

RECURSIVE ScanComposerMsgs(_, _, _, _, _)
ScanComposerMsgs(msgs, i, acc, compId, db) ==
    IF i > Len(msgs) THEN acc
    ELSE ScanComposerMsgs(msgs, i + 1, ComposerMsg(acc, compId, msgs[i], db), compId, db)

RECURSIVE ScanComposers(_, _, _, _)
ScanComposers(comps, i, acc, db) ==
    IF i > Len(comps) THEN acc
    ELSE ScanComposers(comps, i + 1,
                       ScanComposerMsgs(comps[i].messages, 1, acc,
                                        Get(comps[i].composerId, JStr("unknown")).s, db), db)

\* one entry of aiService.prompts (field text) or aiService.generations
\* (field textDescription)
ServiceItem(acc, it, role, db) ==
    IF ~it.isDict \/ it.text.k = "missing" THEN acc
    ELSE IF ~IsStr(it.text) THEN Raise(acc, "AttributeError")   \* .strip() on a non-str
    ELSE IF Strip(it.text.s) = "" THEN acc
    ELSE Yield(acc, Item("aiService_combined", role, JStr(Strip(it.text.s)), db))

RECURSIVE ScanService(_, _, _, _, _)
ScanService(items, i, acc, role, db) ==
    IF i > Len(items) \/ acc.raised # NoExc THEN acc
    ELSE ScanService(items, i + 1, ServiceItem(acc, items[i], role, db), role, db)

\* lines 92-110
ChatDataPart(store, acc) ==
    LET cd == j(store.hasItemTable, store.chatdata)
    IN IF cd.exc # NoExc THEN Raise(acc, cd.exc)
       ELSE IF ~cd.none /\ cd.row.raw = "obj" /\ cd.row.hasTabs
            THEN ScanTabs(cd.row.tabs, 1, acc, store.id)
            ELSE acc

\* lines 112-122
ComposerPart(store, acc) ==
    LET cd == j(store.hasItemTable, store.composerData)
    IN IF cd.exc # NoExc THEN Raise(acc, cd.exc)
       ELSE IF cd.none THEN acc
       ELSE IF cd.row.raw # "obj" THEN Raise(acc, "AttributeError")
       ELSE ScanComposers(cd.row.allComposers, 1, acc, store.id)

\* lines 124-147
ServicePart(store, acc) ==
    LET p == j(store.hasItemTable, store.prompts)
        g == j(store.hasItemTable, store.generations)
    IN IF p.exc # NoExc THEN Raise(acc, p.exc)
       ELSE IF p.none /\ g.none THEN acc
       ELSE LET a1 == IF ~p.none /\ p.row.raw = "list"
                      THEN ScanService(p.row.items, 1, acc, "user", store.id)
                      ELSE acc
            IN IF a1.raised # NoExc THEN a1
               ELSE IF ~g.none /\ g.row.raw = "list"
                    THEN ScanService(g.row.items, 1, a1, "assistant", store.id)
                    ELSE a1

\* mutant of CatchDatabaseError: the handler of line 149 is left out
CatchNothing(acc) == acc

\* except sqlite3.DatabaseError: return
CatchDatabaseError(acc) ==
    IF acc.raised = "DatabaseError" THEN [items |-> acc.items, raised |-> NoExc] ELSE acc

iter_chat_from_item_table(store) ==
    LET a1 == ChatDataPart(store, Nothing)
        a2 == IF a1.raised # NoExc THEN a1 ELSE ComposerPart(store, a1)
        a3 == IF a2.raised # NoExc THEN a2 ELSE ServicePart(store, a2)
    IN CatchDatabaseError(a3)

----------------------------------------------------------------------------
(* Dictionaries that are only looked up *)

EmptyMap == [x \in {} |-> 0]

\* d[key] = v
Put(d, key, v) == [x \in DOMAIN d \cup {key} |-> IF x = key THEN v ELSE d[x]]

\* d.get(key, default)
Lookup(d, key, default) == IF key \in DOMAIN d THEN d[key] ELSE default

UnknownProject == [name |-> "(unknown)", rootPath |-> "(unknown)"]

Meta(title, createdAt, lastUpdatedAt) ==
    [title |-> title, createdAt |-> createdAt, lastUpdatedAt |-> lastUpdatedAt]

\* {"title": f"Chat {cid[:8]}", "createdAt": None, "lastUpdatedAt": None}
DefaultMeta(cid) == Meta(ChatTitle(cid), JNull, JNull)

----------------------------------------------------------------------------
(* extract_project_name_from_path *)

\* A path string is the sequence of the components root_path.split('/')
\* gives: "" is <<"">>, "/" is <<"", "">>, "/Users/bob" is <<"", "Users", "bob">>.

\* [p for p in root_path.split('/') if p]
RECURSIVE NonEmptyParts(_, _)
NonEmptyParts(raw, i) ==
    IF i > Len(raw) THEN <<>>
    ELSE (IF raw[i] # "" THEN <<raw[i]>> ELSE <<>>) \o NonEmptyParts(raw, i + 1)

home_dir_patterns  == {"Users", "home"}
known_projects     == {"genaisf", "cursor-view", "cursor", "cursor-apps",
                       "universal-github", "inquiry"}
project_containers == {"Documents", "Projects", "Code", "workspace", "repos", "git",
                       "src", "codebase"}
system_dirs        == {"Library", "Applications", "System", "var", "opt", "tmp"}

\* what a subscript out of range gives: the IndexError that leaves the function
IndexError == "<IndexError>"

\* path_parts[i] with the indices of the code, which start at 0; path_parts[-1]
\* is written Part(parts, Len(parts) - 1)
Part(parts, i) == IF i + 1 \in DOMAIN parts THEN parts[i + 1] ELSE IndexError

InParts(parts, x) == \E i \in DOMAIN parts : parts[i] = x

\* path_parts.index(x): the first position, from 0
IndexOf(parts, x) ==
    (CHOOSE i \in DOMAIN parts :
        parts[i] = x /\ \A k \in DOMAIN parts : parts[k] = x => i <= k) - 1

\* lines 216-220: one past the first home segment, -1 when there is none
UsernameIndex(parts) ==
    IF \E i \in DOMAIN parts : parts[i] \in home_dir_patterns
    THEN (CHOOSE i \in DOMAIN parts :
             /\ parts[i] \in home_dir_patterns
             /\ \A k \in DOMAIN parts : parts[k] \in home_dir_patterns => i <= k)
    ELSE -1

\* lines 223-225: the path is /Users/<name> with nothing deeper
IsHomeDirectory(parts, ui, current_username) ==
    /\ ui >= 0
    /\ ui < Len(parts)
    /\ Part(parts, ui) = current_username
    /\ Len(parts) <= ui + 1

\* lines 232-237: the deepest known project after the username, "" when none
RECURSIVE DeepestKnown(_, _, _)
DeepestKnown(parts, i, ui) ==
    IF i <= ui THEN ""
    ELSE IF Part(parts, i) \in known_projects THEN Part(parts, i)
    ELSE DeepestKnown(parts, i - 1, ui)

CandidateLast(parts, ui) == Part(parts, Len(parts) - 1)

\* lines 240-256
CandidateName(parts, ui) ==
    LET known == DeepestKnown(parts, Len(parts) - 1, ui)
    IN IF known # "" THEN known
       ELSE LET afterCodebase ==
                    IF /\ InParts(parts, "Documents")
                       /\ InParts(parts, "codebase")
                       /\ IndexOf(parts, "codebase") + 1 < Len(parts)
                    THEN Part(parts, IndexOf(parts, "codebase") + 1)
                    ELSE ""
            IN IF afterCodebase # "" THEN afterCodebase
               ELSE Part(parts, Len(parts) - 1)

\* lines 259-260
SkipUsername(name, current_username) ==
    IF name = current_username THEN "Home Directory" ELSE name

\* lines 265-273
SkipContainer(parts, name) ==
    IF name \in project_containers /\ IndexOf(parts, name) + 1 < Len(parts)
    THEN Part(parts, IndexOf(parts, name) + 1)
    ELSE name

\* lines 276-283
RECURSIVE FirstNonSystem(_, _)
FirstNonSystem(parts, i) ==
    IF i >= Len(parts) THEN ""
    ELSE IF Part(parts, i) \notin system_dirs /\ Part(parts, i) \notin project_containers
         THEN Part(parts, i)
         ELSE FirstNonSystem(parts, i + 1)

\* lines 227-283
NameInUserDirectory(parts, ui, current_username) ==
    LET n1 == CandidateName(parts, ui)
        n2 == SkipUsername(n1, current_username)
        n3 == SkipContainer(parts, n2)
    IN IF n3 = "" THEN FirstNonSystem(parts, ui + 1) ELSE n3

LastUnguarded(parts) == Part(parts, Len(parts) - 1)

\* line 286: path_parts[-1] if path_parts else "Root"
LastOrRoot(parts) == IF parts # <<>> THEN Part(parts, Len(parts) - 1) ELSE "Root"

FinalCheckNever(name, current_username) == name

\* lines 291-292
FinalCheck(name, current_username) ==
    IF name = current_username THEN "Home Directory" ELSE name

\* lines 203-292: project_name as line 296 finds it
DerivedName(raw, current_username) ==
    IF raw = <<"">> \/ raw = <<"", "">> THEN "Root"
    ELSE LET parts == NonEmptyParts(raw, 1)
             ui    == UsernameIndex(parts)
         IN IF IsHomeDirectory(parts, ui, current_username) THEN "Home Directory"
            ELSE FinalCheck(IF ui >= 0 /\ ui + 1 < Len(parts)
                            THEN NameInUserDirectory(parts, ui, current_username)
                            ELSE LastOrRoot(parts),
                            current_username)

\* the value returned, or IndexError when a subscript raised on the way
extract_project_name_from_path(raw, current_username) ==
    LET name == DerivedName(raw, current_username)
    IN IF name # "" THEN name ELSE "Unknown Project"

----------------------------------------------------------------------------
(* workspace_info *)

\* comp_meta[c["composerId"]] = {...}: KeyError when the entry has no composerId
RECURSIVE ComposersMeta(_, _, _)
ComposersMeta(comps, i, acc) ==
    IF i > Len(comps) \/ acc.raised # NoExc THEN acc
    ELSE LET c == comps[i]
         IN ComposersMeta(comps, i + 1,
              IF c.composerId.k = "missing"
              THEN [meta |-> acc.meta, raised |-> "KeyError"]
              ELSE [meta |-> Put(acc.meta, c.composerId.s,
                                 Meta(Get(c.name, JStr("(untitled)")).s,
                                      Get(c.createdAt, JNull),
                                      Get(c.lastUpdatedAt, JNull))),
                    raised |-> NoExc])

\* a tab adds a default entry unless its id is empty, missing or already known
RECURSIVE TabsMeta(_, _, _)
TabsMeta(tabs, i, acc) ==
    IF i > Len(tabs) THEN acc
    ELSE LET tabId == Get(tabs[i].tabId, JNull)
         IN TabsMeta(tabs, i + 1,
              IF Truthy(tabId) /\ tabId.s \notin DOMAIN acc.meta
              THEN [meta |-> Put(acc.meta, tabId.s, DefaultMeta(tabId.s)),
                    raised |-> acc.raised]
              ELSE acc)

\* returns (proj, comp_meta).  The project, which lines 304-349 derive from
\* the history entries and debug.selectedroot, is the store's field proj.
workspace_info(store) ==
    IF ~store.hasItemTable
    THEN \* except sqlite3.DatabaseError
         [proj |-> UnknownProject, meta |-> EmptyMap, raised |-> NoExc]
    ELSE LET cd == j(TRUE, store.composerData)
             ch == j(TRUE, store.chatdata)
             m0 == [meta |-> EmptyMap, raised |-> NoExc]
             m1 == IF cd.none THEN m0
                   ELSE IF cd.row.raw # "obj"
                        THEN [meta |-> EmptyMap, raised |-> "AttributeError"]
                        ELSE ComposersMeta(cd.row.allComposers, 1, m0)
             m2 == IF m1.raised # NoExc \/ ch.none THEN m1
                   ELSE IF ch.row.raw # "obj"
                        THEN [meta |-> m1.meta, raised |-> "AttributeError"]
                        ELSE TabsMeta(ch.row.tabs, 1, m1)
         IN [proj |-> store.proj, meta |-> m2.meta, raised |-> m2.raised]

----------------------------------------------------------------------------
(* The values the formatters are given: dictionaries with their keys in
   insertion order, lists with their items, and the scalars of JSON *)

Dict(keys, vals) == [k |-> "dict", keys |-> keys, vals |-> vals]
List(items)      == [k |-> "list", items |-> items]
JFloat(ms)       == [k |-> "float", s |-> "", n |-> ms]   \* the float ms / 1000
JBig             == [k |-> "big", s |-> "", n |-> 0]      \* an int above the float range

EmptyDict == Dict(<<>>, <<>>)
EmptyList == List(<<>>)

IsDict(v) == v.k = "dict"
IsList(v) == v.k = "list"

\* d.get(key): the value of the key, JMissing when the dict has no such key
DGet(d, key) ==
    IF \E i \in DOMAIN d.keys : d.keys[i] = key
    THEN d.vals[CHOOSE i \in DOMAIN d.keys : d.keys[i] = key]
    ELSE JMissing

\* bool(v)
Bool(v) ==
    CASE v.k = "str"   -> v.s # ""
      [] v.k = "num"   -> v.n # 0
      [] v.k = "float" -> v.n # 0
      [] v.k = "big"   -> TRUE
      [] v.k = "list"  -> v.items # <<>>
      [] v.k = "dict"  -> v.keys # <<>>
      [] OTHER         -> FALSE

\* len(v) raises TypeError for a value without a length
HasLen(v) == v.k \in {"str", "list", "dict"}

\* what a formatter returns: a value, the exception caught on the way ("none"
\* when there was none) and the exception that left the function
Returned(v)     == [value |-> v, caught |-> NoExc, raised |-> NoExc]
Recovered(v, e) == [value |-> v, caught |-> e, raised |-> NoExc]
Escaped(e)      == [value |-> JNull, caught |-> NoExc, raised |-> e]

----------------------------------------------------------------------------
(* format_chat_for_export *)

\* lines 548, 553: 'session' in chat and chat['session'] and isinstance(.., dict)
HasSession(chat) == Bool(DGet(chat, "session")) /\ IsDict(DGet(chat, "session"))

\* lines 547-549
SessionId(chat, uuid) ==
    IF HasSession(chat)
    THEN Get(DGet(DGet(chat, "session"), "composerId"), JStr(uuid))
    ELSE JStr(uuid)

\* line 555: if created_at and isinstance(created_at, (int, float))
UsesCreatedAt(chat) ==
    /\ HasSession(chat)
    /\ Bool(DGet(DGet(chat, "session"), "createdAt"))
    /\ DGet(DGet(chat, "session"), "createdAt").k \in {"num", "float", "big"}

\* line 557: created_at / 1000, a float; OverflowError for an int too large
MsToSeconds(created_at) == JFloat(created_at.n)

\* lines 552-557
Date(chat, now) ==
    IF UsesCreatedAt(chat)
    THEN MsToSeconds(DGet(DGet(chat, "session"), "createdAt"))
    ELSE JNum(now)

DateRaises(chat) ==
    UsesCreatedAt(chat) /\ DGet(DGet(chat, "session"), "createdAt").k = "big"

\* chat.get(key, default), replaced by the default unless kind fits
GetOfKind(chat, key, kind, default) ==
    LET v == Get(DGet(chat, key), default)
    IN IF v.k = kind THEN v ELSE default

\* lines 586-593
ErrorObject(now, uuid) ==
    Dict(<<"project", "messages", "date", "session_id", "workspace_id", "db_path">>,
         <<Dict(<<"name", "rootPath">>, <<JStr("Error"), JStr("/")>>),
           EmptyList, JNum(now), JStr(uuid), JStr("error"),
           JStr("Error retrieving database path")>>)

\* lines 543-594; uuid and uuid2 are the two identifiers uuid4() may give
format_chat_for_export(chat, now, uuid, uuid2) ==
    IF DateRaises(chat) THEN Recovered(ErrorObject(now, uuid2), "OverflowError")
    ELSE Returned(
           Dict(<<"project", "messages", "date", "session_id", "workspace_id", "db_path">>,
                <<GetOfKind(chat, "project", "dict", EmptyDict),
                  GetOfKind(chat, "messages", "list", EmptyList),
                  Date(chat, now),
                  SessionId(chat, uuid),
                  Get(DGet(chat, "workspace_id"), JStr("unknown")),
                  Get(DGet(chat, "db_path"), JStr("Unknown database path"))>>))

----------------------------------------------------------------------------
(* generate_standalone_markdown and generate_standalone_html.  A document
   is kept as its parts: the header fields and, for each message, who spoke
   and the text that is laid out; an error document keeps the exception. *)

\* lines 605-611 and 730-736: "Unknown date" unless the date is a non-zero
\* number (fromtimestamp of anything else fails and is caught on the spot)
DateDisplay(chat) ==
    LET d == DGet(chat, "date")
    IN IF Bool(d) /\ d.k \in {"num", "float"} THEN d ELSE JStr("Unknown date")

\* the items a loop over the value visits; the characters of a string and the
\* keys of a dict are strings
Iterate(v) ==
    CASE v.k = "list" -> v.items
      [] v.k = "dict" -> [i \in DOMAIN v.keys |-> JStr(v.keys[i])]
      [] OTHER        -> [i \in 1..Len(v.s) |-> JStr(SubSeq(v.s, i, i))]

\* lines 647-649 and 753-755: msg.get of a non-dict, len of a content without
\* a length (the f-string of the debug line is evaluated at any log level)
MessageRaises(msg) ==
    IF ~IsDict(msg) THEN "AttributeError"
    ELSE IF ~HasLen(Get(DGet(msg, "content"), JStr(""))) THEN "TypeError"
    ELSE NoExc

\* lines 651-653 and 757-759
ContentOrUnavailable(msg) ==
    LET content == Get(DGet(msg, "content"), JStr(""))
    IN IF ~Bool(content) \/ ~IsStr(content) THEN "Content unavailable" ELSE content.s

IsUser(msg) == Get(DGet(msg, "role"), JStr("unknown")) = JStr("user")

\* lines 656-662
MarkdownMessage(msg) ==
    [speaker |-> IF IsUser(msg) THEN "You" ELSE "Cursor Assistant",
     text    |-> Strip(ContentOrUnavailable(msg))]

\* line 762: content.replace("&", "&amp;").replace("<", "&lt;").replace(">", "&gt;")
RECURSIVE EscapeHtml(_)
EscapeHtml(s) ==
    IF s = "" THEN ""
    ELSE LET c == SubSeq(s, 1, 1)
         IN (CASE c = "&" -> "&amp;"
               [] c = "<" -> "&lt;"
               [] c = ">" -> "&gt;"
               [] OTHER   -> c) \o EscapeHtml(SubSeq(s, 2, Len(s)))

\* lines 762, 789-790
HtmlMessage(msg) ==
    [speaker |-> IF IsUser(msg) THEN "You" ELSE "Cursor Assistant",
     text    |-> EscapeHtml(ContentOrUnavailable(msg))]

\* the loop over the messages: the parts laid out, and the exception that
\* ended the loop
RECURSIVE RenderMessages(_, _, _, _)
RenderMessages(items, i, acc, format) ==
    IF i > Len(items) THEN [parts |-> acc, exc |-> NoExc]
    ELSE IF MessageRaises(items[i]) # NoExc
         THEN [parts |-> acc, exc |-> MessageRaises(items[i])]
         ELSE RenderMessages(items, i + 1,
                             Append(acc, IF format = "markdown"
                                         THEN MarkdownMessage(items[i])
                                         ELSE HtmlMessage(items[i])),
                             format)

\* the body of the try block of either generator: lines 603-710, 728-846
Generate(chat, format) ==
    LET project  == Get(DGet(chat, "project"), EmptyDict)
        messages == Get(DGet(chat, "messages"), EmptyList)
    IN IF ~IsDict(project) THEN [doc |-> JNull, exc |-> "AttributeError"]
       ELSE IF ~HasLen(messages) THEN [doc |-> JNull, exc |-> "TypeError"]
       ELSE LET body == RenderMessages(Iterate(messages), 1, <<>>, format)
            IN [doc |-> [format       |-> format,
                         error        |-> FALSE,
                         project_name |-> Get(DGet(project, "name"), JStr("Unknown Project")),
                         project_path |-> Get(DGet(project, "rootPath"), JStr("Unknown Path")),
                         date         |-> DateDisplay(chat),
                         session_id   |-> Get(DGet(chat, "session_id"), JStr("Unknown")),
                         messages     |-> body.parts],
                exc |-> body.exc]

\* lines 715-723 and 850-851
ErrorDocument(format, e) == [format |-> format, error |-> TRUE, text |-> e]

CatchNone(body, format) ==
    IF body.exc # NoExc THEN Escaped(body.exc) ELSE Returned(body.doc)

\* except Exception as e of lines 712 and 848
CatchException(body, format) ==
    IF body.exc # NoExc
    THEN Recovered(ErrorDocument(format, body.exc), body.exc)
    ELSE Returned(body.doc)

generate_standalone_markdown(chat) == CatchException(Generate(chat, "markdown"), "markdown")

generate_standalone_html(chat) == CatchException(Generate(chat, "html"), "html")

----------------------------------------------------------------------------
(* json.dumps(formatted_chat, indent=2, ensure_ascii=False) and json.loads:
   the document is the text, character by character *)

Char(t, i) == SubSeq(t, i, i)

Digits == "0123456789"

IsDigit(c) == \E d \in 1..10 : Char(Digits, d) = c

DigitValue(c) == (CHOOSE d \in 1..10 : Char(Digits, d) = c) - 1

RECURSIVE IntToStr(_)
IntToStr(n) ==
    IF n < 10 THEN Char(Digits, n + 1)
    ELSE IntToStr(n \div 10) \o Char(Digits, (n % 10) + 1)

\* repr of the float ms / 1000: 1.5, 0.001, 1.0
FloatToStr(ms) ==
    LET f == ms % 1000
        frac == IF f = 0 THEN "0"
                ELSE IF f % 100 = 0 THEN IntToStr(f \div 100)
                ELSE IF f % 10 = 0
                     THEN (IF f < 100 THEN "0" ELSE "") \o IntToStr(f \div 10)
                ELSE (IF f < 10 THEN "00" ELSE IF f < 100 THEN "0" ELSE "") \o IntToStr(f)
    IN IntToStr(ms \div 1000) \o "." \o frac

NoEscape(c) == c

\* the escapes of a JSON string; ensure_ascii=False leaves the other
\* characters as they are
EscapeChar(c) ==
    CASE c = "\"" -> "\\\""
      [] c = "\\" -> "\\\\"
      [] c = "\n" -> "\\n"
      [] OTHER    -> c

RECURSIVE EscapeJson(_)
EscapeJson(s) ==
    IF s = "" THEN "" ELSE EscapeChar(Char(s, 1)) \o EscapeJson(SubSeq(s, 2, Len(s)))

Quoted(s) == "\"" \o EscapeJson(s) \o "\""

RECURSIVE Indent(_)
Indent(level) == IF level = 0 THEN "\n" ELSE Indent(level - 1) \o "  "

RECURSIVE Dumps(_, _)
RECURSIVE DumpItems(_, _, _)
RECURSIVE DumpMembers(_, _, _)

DumpItems(items, i, level) ==
    Indent(level) \o Dumps(items[i], level)
    \o (IF i < Len(items) THEN "," \o DumpItems(items, i + 1, level) ELSE "")

DumpMembers(d, i, level) ==
    Indent(level) \o Quoted(d.keys[i]) \o ": " \o Dumps(d.vals[i], level)
    \o (IF i < Len(d.keys) THEN "," \o DumpMembers(d, i + 1, level) ELSE "")

\* json.dumps(v, indent=2, ensure_ascii=False), v nested level deep
Dumps(v, level) ==
    CASE v.k = "str"   -> Quoted(v.s)
      [] v.k = "num"   -> IntToStr(v.n)
      [] v.k = "float" -> FloatToStr(v.n)
      [] v.k = "list"  -> IF v.items = <<>> THEN "[]"
                          ELSE "[" \o DumpItems(v.items, 1, level + 1) \o Indent(level) \o "]"
      [] v.k = "dict"  -> IF v.keys = <<>> THEN "{}"
                          ELSE "{" \o DumpMembers(v, 1, level + 1) \o Indent(level) \o "}"
      [] OTHER         -> "null"

\* the result of a parsing step: the value, the position after it, and
\* whether the text was well formed so far
Parsed(v, i) == [v |-> v, i |-> i, ok |-> TRUE]
Malformed(i) == [v |-> JNull, i |-> i, ok |-> FALSE]

RECURSIVE SkipWhitespace(_, _)
SkipWhitespace(t, i) ==
    IF i <= Len(t) /\ Char(t, i) \in {" ", "\n"} THEN SkipWhitespace(t, i + 1) ELSE i

\* the characters of a string up to its closing quote
RECURSIVE ParseString(_, _, _)
ParseString(t, i, acc) ==
    IF i > Len(t) THEN Malformed(i)
    ELSE IF Char(t, i) = "\"" THEN Parsed(JStr(acc), i + 1)
    ELSE IF Char(t, i) = "\\"
         THEN IF i + 1 > Len(t) THEN Malformed(i)
              ELSE IF Char(t, i + 1) = "n" THEN ParseString(t, i + 2, acc \o "\n")
              ELSE IF Char(t, i + 1) \in {"\"", "\\"}
                   THEN ParseString(t, i + 2, acc \o Char(t, i + 1))
              ELSE Malformed(i)
    ELSE IF Char(t, i) = "\n" THEN Malformed(i)
    ELSE ParseString(t, i + 1, acc \o Char(t, i))

RECURSIVE ParseDigits(_, _, _, _)
ParseDigits(t, i, acc, count) ==
    IF i <= Len(t) /\ IsDigit(Char(t, i))
    THEN ParseDigits(t, i + 1, acc * 10 + DigitValue(Char(t, i)), count + 1)
    ELSE [n |-> acc, i |-> i, count |-> count]

\* an int, or a float with at most three decimals, kept in thousandths
ParseNumber(t, i) ==
    LET whole == ParseDigits(t, i, 0, 0)
    IN IF whole.count = 0 THEN Malformed(i)
       ELSE IF whole.i <= Len(t) /\ Char(t, whole.i) = "."
            THEN LET frac == ParseDigits(t, whole.i + 1, 0, 0)
                 IN IF frac.count \notin 1..3 THEN Malformed(whole.i)
                    ELSE Parsed(JFloat(whole.n * 1000
                                       + frac.n * (CASE frac.count = 1 -> 100
                                                     [] frac.count = 2 -> 10
                                                     [] OTHER          -> 1)),
                                frac.i)
            ELSE Parsed(JNum(whole.n), whole.i)

RECURSIVE ParseValue(_, _)
RECURSIVE ParseItems(_, _, _)
RECURSIVE ParseMembers(_, _, _, _)

\* after "[" or ",": the items up to "]"
ParseItems(t, i, acc) ==
    LET item == ParseValue(t, i)
        next == SkipWhitespace(t, item.i)
    IN IF ~item.ok \/ next > Len(t) THEN Malformed(next)
       ELSE IF Char(t, next) = "," THEN ParseItems(t, next + 1, Append(acc, item.v))
       ELSE IF Char(t, next) = "]" THEN Parsed(List(Append(acc, item.v)), next + 1)
       ELSE Malformed(next)

\* after "{" or ",": the members up to "}"
ParseMembers(t, i, keys, vals) ==
    LET start == SkipWhitespace(t, i)
        key   == IF start <= Len(t) /\ Char(t, start) = "\""
                 THEN ParseString(t, start + 1, "") ELSE Malformed(start)
        colon == SkipWhitespace(t, key.i)
        val   == IF key.ok /\ colon <= Len(t) /\ Char(t, colon) = ":"
                 THEN ParseValue(t, colon + 1) ELSE Malformed(colon)
        next  == SkipWhitespace(t, val.i)
    IN IF ~val.ok \/ next > Len(t) THEN Malformed(next)
       ELSE IF Char(t, next) = ","
            THEN ParseMembers(t, next + 1, Append(keys, key.v.s), Append(vals, val.v))
       ELSE IF Char(t, next) = "}"
            THEN Parsed(Dict(Append(keys, key.v.s), Append(vals, val.v)), next + 1)
       ELSE Malformed(next)

ParseValue(t, i) ==
    LET start == SkipWhitespace(t, i)
        c     == Char(t, start)
        after == SkipWhitespace(t, start + 1)
    IN IF start > Len(t) THEN Malformed(start)
       ELSE IF c = "\"" THEN ParseString(t, start + 1, "")
       ELSE IF c = "[" THEN (IF after <= Len(t) /\ Char(t, after) = "]"
                             THEN Parsed(EmptyList, after + 1)
                             ELSE ParseItems(t, start + 1, <<>>))
       ELSE IF c = "{" THEN (IF after <= Len(t) /\ Char(t, after) = "}"
                             THEN Parsed(EmptyDict, after + 1)
                             ELSE ParseMembers(t, start + 1, <<>>, <<>>))
       ELSE IF start + 3 <= Len(t) /\ SubSeq(t, start, start + 3) = "null"
            THEN Parsed(JNull, start + 4)
       ELSE ParseNumber(t, start)

\* json.loads(text): one value and nothing but whitespace after it;
\* json.JSONDecodeError otherwise
Loads(t) ==
    LET doc == ParseValue(t, 1)
    IN IF doc.ok /\ SkipWhitespace(t, doc.i) > Len(t)
       THEN Returned(doc.v)
       ELSE Escaped("JSONDecodeError")

----------------------------------------------------------------------------
(* export_chats, from the selected sessions on, and export_chat_to_file *)

\* f"{i:03d}"
Pad3(i) == (IF i < 10 THEN "00" ELSE IF i < 100 THEN "0" ELSE "") \o IntToStr(i)

\* name.replace(' ', '_')
RECURSIVE ReplaceSpaces(_)
ReplaceSpaces(s) ==
    IF s = "" THEN ""
    ELSE (IF Char(s, 1) = " " THEN "_" ELSE Char(s, 1)) \o ReplaceSpaces(SubSeq(s, 2, Len(s)))

\* lines 1056 and 1088: chat.get('project', {}).get('name', 'unknown')
ProjectNameOf(record) ==
    Get(DGet(Get(DGet(record, "project"), EmptyDict), "name"), JStr("unknown"))

\* mutant of BatchSessionId: the generated id leaves the index out
BatchSessionIdSame(record, i) ==
    LET session_id == Get(DGet(record, "session_id"), JStr(""))
    IN IF Bool(session_id) THEN Take8(session_id.s) ELSE "chat"

\* lines 1082-1086
BatchSessionId(record, i) ==
    LET session_id == Get(DGet(record, "session_id"), JStr(""))
    IN IF Bool(session_id) THEN Take8(session_id.s) ELSE "chat" \o Pad3(i)

\* line 1094: session.get('createdAt') or session.get('lastUpdatedAt')
DateTimestamp(record) ==
    LET session == Get(DGet(record, "session"), EmptyDict)
    IN IF Bool(DGet(session, "createdAt")) THEN DGet(session, "createdAt")
       ELSE DGet(session, "lastUpdatedAt")

\* lines 1096-1106: the date to the second, the index when there is no date
Timestamp(record, i) ==
    LET ts == DateTimestamp(record)
    IN IF Bool(ts) THEN "-date" \o IntToStr(ts.n \div 1000) ELSE "-" \o Pad3(i)

\* lines 1099 and 1103: date_timestamp / 1000 fails for a string, and so does
\* int(date_timestamp) in the handler, which nothing catches
TimestampRaises(record) ==
    LET ts == DateTimestamp(record)
    IN IF Bool(ts) /\ ts.k = "str" THEN "ValueError" ELSE NoExc

\* lines 1082-1109
BatchFileName(record, i) ==
    "cursor-chat-" \o ReplaceSpaces(ProjectNameOf(record).s) \o "-"
    \o BatchSessionId(record, i) \o Timestamp(record, i)

\* lines 1055-1061, with a directory as output
SingleFileName(record) ==
    "cursor-chat-" \o ReplaceSpaces(ProjectNameOf(record).s) \o "-"
    \o Take8(Get(DGet(record, "session_id"), JStr("unknown")).s)

Suffix(fmt) ==
    CASE fmt = "json" -> ".json"
      [] fmt = "html" -> ".html"
      [] OTHER        -> ".md"

\* output_path.suffix: from the last dot of the name on, when that dot is
\* neither the first nor the last character
PathSuffix(name) ==
    LET dots == {i \in 1..Len(name) : Char(name, i) = "."}
    IN IF dots = {} THEN ""
       ELSE LET last == CHOOSE i \in dots : \A k \in dots : k <= i
            IN IF last > 1 /\ last < Len(name) THEN SubSeq(name, last, Len(name)) ELSE ""

\* lines 859-860, 863-864, 867-868: the suffix is added to a path without one
WithSuffix(name, suffix) == IF PathSuffix(name) = "" THEN name \o suffix ELSE name

\* lines 853-876: the path written, or the OSError of open() or write()
export_chat_to_file(record, fmt, name, writable, t) ==
    LET formatted_chat == format_chat_for_export(record, t, "uuid-1", "uuid-2").value
        content == CASE fmt = "json" -> Returned(JStr(Dumps(formatted_chat, 0)))
                     [] fmt = "html" -> generate_standalone_html(formatted_chat)
                     [] OTHER        -> generate_standalone_markdown(formatted_chat)
    IN IF writable
       THEN [path |-> WithSuffix(name, Suffix(fmt)), content |-> content.value,
             raised |-> NoExc]
       ELSE [path |-> WithSuffix(name, Suffix(fmt)), content |-> JNull,
             raised |-> "OSError"]

\* what one pass through lines 1111-1115 reports
Attempt(i, exported) ==
    [i |-> i, path |-> exported.path, content |-> exported.content,
     report |-> IF exported.raised = NoExc THEN "success" ELSE "failed"]

----------------------------------------------------------------------------
(* export_chats: the filters of lines 1008-1047 *)

UpperCase == "ABCDEFGHIJKLMNOPQRSTUVWXYZ"
LowerCase == "abcdefghijklmnopqrstuvwxyz"

LowerChar(c) ==
    IF \E i \in 1..Len(UpperCase) : Char(UpperCase, i) = c
    THEN Char(LowerCase, CHOOSE i \in 1..Len(UpperCase) : Char(UpperCase, i) = c)
    ELSE c

\* str.lower()
RECURSIVE Lower(_)
Lower(s) == IF s = "" THEN "" ELSE LowerChar(Char(s, 1)) \o Lower(SubSeq(s, 2, Len(s)))

\* s.startswith(prefix)
StartsWith(s, prefix) == Len(prefix) <= Len(s) /\ SubSeq(s, 1, Len(prefix)) = prefix

\* sub in s
Contains(s, sub) ==
    \E i \in 0..(Len(s) - Len(sub)) : SubSeq(s, i + 1, i + Len(sub)) = sub

\* list[:n], for n of either sign
Slice(list, n) ==
    LET stop == IF n >= 0 THEN (IF n < Len(list) THEN n ELSE Len(list))
                ELSE (IF Len(list) + n > 0 THEN Len(list) + n ELSE 0)
    IN SubSeq(list, 1, stop)

\* line 1016: c.get('session_id', '').startswith(args.session_id)
SessionIdMatches(record, session_id) ==
    StartsWith(Get(DGet(record, "session_id"), JStr("")).s, session_id)

\* lines 1025 and 1034: wanted.lower() in c.get('project', {}).get('name', '').lower()
ProjectMatches(record, wanted) ==
    Contains(Lower(Get(DGet(Get(DGet(record, "project"), EmptyDict), "name"), JStr("")).s),
             Lower(wanted))

\* lines 1015-1016
BySessionId(list, args) ==
    IF Bool(args.session_id)
    THEN SelectSeq(list, LAMBDA c : SessionIdMatches(c.record, args.session_id.s))
    ELSE list

\* lines 1022-1034: the project asked for, else the project of the current
\* directory, else every project
ProjectWanted(args, current_project) ==
    IF Bool(args.project) THEN JStr(args.project.s)
    ELSE IF ~args.all_projects THEN JStr(current_project)
    ELSE JNull

ByProject(list, args, current_project) ==
    LET wanted == ProjectWanted(args, current_project)
    IN IF wanted # JNull
       THEN SelectSeq(list, LAMBDA c : ProjectMatches(c.record, wanted.s))
       ELSE list

\* lines 1044-1045: if args.limit: filtered_chats[:args.limit]
Limited(list, args) ==
    IF Bool(args.limit) THEN Slice(list, args.limit.n) ELSE list

\* lines 1008-1047: the sessions to export, or the message of the return 1
Refused(why)   == [refused |-> why, filtered |-> <<>>]
Selected(list) == [refused |-> "", filtered |-> list]

select_chats(list, args, current_project) ==
    LET by_id      == BySessionId(list, args)
        by_project == ByProject(by_id, args, current_project)
    IN IF list = <<>> THEN Refused("No chat records found")
       ELSE IF Bool(args.session_id) /\ by_id = <<>>
            THEN Refused("No chat records found with session ID")
       ELSE IF ProjectWanted(args, current_project) # JNull /\ by_project = <<>>
            THEN Refused("No chat records found for project")
       ELSE Selected(Limited(by_project, args))

----------------------------------------------------------------------------
(* export_claude_history.py: the history files *)

\* Body(value), with the value computed once
With(value, Body(_)) == CHOOSE result \in {Body(v) : v \in {value}} : TRUE

\* lines 49-55: one line of a history file
ReadLine(acc, line, line_num) ==
    With(Strip(line), LAMBDA text :
        IF text = "" THEN acc
        ELSE With(Loads(text), LAMBDA parsed :
                 IF parsed.raised = NoExc
                 THEN [acc EXCEPT !.entries = Append(@, parsed.value)]
                 ELSE [acc EXCEPT !.warnings = Append(@, line_num)]))

RECURSIVE ReadLines(_, _, _)
ReadLines(lines, i, acc) ==
    IF i > Len(lines) THEN acc
    ELSE With(ReadLine(acc, lines[i], i), LAMBDA read : ReadLines(lines, i + 1, read))

\* lines 43-59: the entries of a file, and the numbers of the lines warned
\* about; a file that cannot be opened gives no entry
read_history_file(file) ==
    IF file.readable
    THEN ReadLines(file.lines, 1, [entries |-> <<>>, warnings |-> <<>>])
    ELSE [entries |-> <<>>, warnings |-> <<>>]

\* d[key] = value
DSet(d, key, value) ==
    IF \E i \in DOMAIN d.keys : d.keys[i] = key
    THEN Dict(d.keys, [i \in DOMAIN d.keys |-> IF d.keys[i] = key THEN value ELSE d.vals[i]])
    ELSE Dict(Append(d.keys, key), Append(d.vals, value))

\* line 80: entry['_source_file'] = str(file_info['path'])
SetSourceFile(entry, path) ==
    IF IsDict(entry) THEN Returned(DSet(entry, "_source_file", JStr(path)))
    ELSE Escaped("TypeError")

\* lines 79-80, over the entries of one file
RECURSIVE TagEntries(_, _, _, _)
TagEntries(entries, i, path, acc) ==
    IF i > Len(entries) \/ acc.raised # NoExc THEN acc
    ELSE With(SetSourceFile(entries[i], path), LAMBDA tagged :
             With(IF tagged.raised # NoExc
                  THEN [acc EXCEPT !.raised = tagged.raised]
                  ELSE [acc EXCEPT !.entries = Append(@, tagged.value)],
                  LAMBDA next : TagEntries(entries, i + 1, path, next)))

\* lines 76-81, over the files
RECURSIVE CollectFiles(_, _, _)
CollectFiles(files, i, acc) ==
    IF i > Len(files) \/ acc.raised # NoExc THEN acc
    ELSE With(read_history_file(files[i]), LAMBDA read :
         With(TagEntries(read.entries, 1, files[i].path,
                         [entries |-> acc.entries, raised |-> NoExc]), LAMBDA tagged :
         With([entries  |-> tagged.entries,
               warnings |-> acc.warnings
                            \o [k \in DOMAIN read.warnings |->
                                   <<files[i].path, read.warnings[k]>>],
               raised   |-> tagged.raised],
              LAMBDA next : CollectFiles(files, i + 1, next))))

\* what export_history did: the file it returned (None when it wrote none),
\* the entries written, the warnings printed, the exception that left it
NotExported == [file |-> JNull, written |-> <<>>, warnings |-> <<>>, raised |-> NoExc]

\* lines 62-144; the files of the directory are in the order of line 40
export_history(dir, output_file, limit, can_write) ==
    IF ~dir.exists \/ dir.files = <<>> THEN NotExported
    ELSE With(IF Bool(limit) THEN Slice(dir.files, limit.n) ELSE dir.files, LAMBDA chosen :
         With(CollectFiles(chosen, 1,
                           [entries |-> <<>>, warnings |-> <<>>, raised |-> NoExc]),
              LAMBDA all :
            IF all.raised # NoExc
            THEN [NotExported EXCEPT !.warnings = all.warnings, !.raised = all.raised]
            ELSE IF all.entries = <<>> \/ ~Bool(output_file)
                 THEN [NotExported EXCEPT !.warnings = all.warnings]
            ELSE IF ~can_write
                 THEN [NotExported EXCEPT !.warnings = all.warnings, !.raised = "OSError"]
            ELSE [file |-> output_file, written |-> all.entries,
                  warnings |-> all.warnings, raised |-> NoExc]))

----------------------------------------------------------------------------
(* export_claude_history.py: main and upload_file_to_server *)

\* the command line without options
NoCli ==
    [output |-> JNull, format |-> "json", limit |-> JNull, summary |-> FALSE,
     upload |-> FALSE, username |-> JNull, password |-> JNull]

\* lines 221-223
OutputFile(args) ==
    IF Bool(args.output) THEN args.output
    ELSE JStr("claude_history_20240101_000000." \o args.format)

\* lines 227-230: whether main calls upload_file_to_server
UploadWanted(args, exported_file) ==
    Bool(exported_file) /\ args.upload /\ Bool(args.username) /\ Bool(args.password)

\* what the server may answer to the login request, and to the upload
AuthResponses   == {"ConnectionError", "HTTPError", "not json", "no access_token", "token"}
UploadResponses == {"ConnectionError", "HTTPError", "not json", "no url", "ok"}

Request(url, authorization) == [url |-> url, authorization |-> authorization]

AfterLoginAlways(response) == {"upload"}

\* lines 160-166: what follows the login request. A body that is not JSON
\* raises requests' JSONDecodeError, a RequestException in requests 2.27 and
\* later and a plain ValueError before; a body without access_token raises
\* KeyError, which is not caught
AfterLogin(response) ==
    CASE response \in {"ConnectionError", "HTTPError"} -> {"False"}
      [] response = "not json"                          -> {"False", "raised"}
      [] response = "no access_token"                   -> {"raised"}
      [] OTHER                                          -> {"upload"}

\* lines 174-187: what follows the upload request
AfterUpload(response) ==
    CASE response \in {"ConnectionError", "HTTPError"} -> {"False"}
      [] response = "not json"                          -> {"False", "raised"}
      [] response = "no url"                            -> {"raised"}
      [] OTHER                                          -> {"True"}

----------------------------------------------------------------------------
(* anyspecs/config/ai_config.py: the configuration and its file *)

\* True and False
PyBool(b) == [k |-> "bool", s |-> "", n |-> IF b THEN 1 ELSE 0]

\* lines 29-68
BuiltinConfig ==
    Dict(<<"default_provider", "providers", "compress_settings">>,
         <<JNull,
           Dict(<<"aihubmix", "kimi", "minimax", "ppio">>,
                <<Dict(<<"api_key", "model", "base_url", "temperature", "max_tokens">>,
                       <<JNull, JStr("gpt-4o-mini"), JStr("https://aihubmix.com/v1"),
                         JFloat(300), JNum(10000)>>),
                  Dict(<<"api_key", "model", "base_url", "temperature", "max_tokens">>,
                       <<JNull, JStr("kimi-k2-0711-preview"),
                         JStr("https://api.moonshot.cn/v1"), JFloat(600), JNum(10000)>>),
                  Dict(<<"api_key", "group_id", "model", "base_url", "temperature",
                         "max_tokens">>,
                       <<JNull, JNull, JStr("MiniMax-Text-01"),
                         JStr("https://api.minimaxi.com/v1"), JFloat(300), JNum(8192)>>),
                  Dict(<<"api_key", "model", "base_url", "temperature", "max_tokens">>,
                       <<JNull, JStr("deepseek/deepseek-r1"),
                         JStr("https://api.ppinfra.com/v3/openai"), JFloat(300),
                         JNum(512)>>)>>),
           Dict(<<"default_input_dir", "default_output_dir", "default_pattern",
                  "batch_size">>,
                <<JStr(".anyspecs"), JNull, JNull, JNum(1)>>)>>)

\* lines 262-270, from the i-th item of source on: the target after the merge
RECURSIVE merge_dict(_, _, _)
merge_dict(target, source, i) ==
    IF i > Len(source.keys) THEN target
    ELSE With(DGet(target, source.keys[i]), LAMBDA old :
         With(IF IsDict(old) /\ IsDict(source.vals[i])
              THEN DSet(target, source.keys[i], merge_dict(old, source.vals[i], 1))
              ELSE DSet(target, source.keys[i], source.vals[i]),
              LAMBDA merged : merge_dict(merged, source, i + 1)))

\* default_config.copy() copies the top level only: a dict inside
\* default_config that was merged into is the dict of the merged result
SharedWith(defaults, merged) ==
    Dict(defaults.keys,
         [i \in DOMAIN defaults.keys |->
             IF IsDict(defaults.vals[i]) /\ IsDict(DGet(merged, defaults.keys[i]))
             THEN DGet(merged, defaults.keys[i])
             ELSE defaults.vals[i]])

\* lines 259-274: the merged configuration, and default_config afterwards
merge_with_defaults(defaults, config) ==
    With(merge_dict(defaults, config, 1), LAMBDA merged :
        [config |-> merged, defaults |-> SharedWith(defaults, merged)])

\* lines 70-88; a file whose content is not a JSON object raises inside the
\* try, before anything is merged
load_config(file, defaults) ==
    IF file = JMissing THEN [config |-> defaults, defaults |-> defaults]
    ELSE IF IsDict(file) THEN merge_with_defaults(defaults, file)
    ELSE [config |-> defaults, defaults |-> defaults]

\* lines 90-102: the file afterwards, and the value returned
save_config(config, file, can_write) ==
    IF can_write THEN [file |-> config, ok |-> TRUE] ELSE [file |-> file, ok |-> FALSE]

\* lines 104-129, on the configuration load_config returned
is_configured(config, provider) ==
    LET providers == Get(DGet(config, "providers"), EmptyDict)
        chosen    == IF provider # JNull THEN provider ELSE DGet(config, "default_provider")
        settings  == Get(DGet(providers, chosen.s), EmptyDict)
    IN IF provider = JNull /\ ~Bool(DGet(config, "default_provider"))
       THEN \E i \in DOMAIN providers.vals : Bool(DGet(providers.vals[i], "api_key"))
       ELSE IF chosen.s = "minimax"
            THEN Bool(DGet(settings, "api_key")) /\ Bool(DGet(settings, "group_id"))
            ELSE Bool(DGet(settings, "api_key"))

\* dict.update(settings), from the i-th item on
RECURSIVE Update(_, _, _)
Update(d, settings, i) ==
    IF i > Len(settings.keys) THEN d
    ELSE With(DSet(d, settings.keys[i], settings.vals[i]),
              LAMBDA next : Update(next, settings, i + 1))

\* lines 292-302: the file afterwards, and the value returned
reset_config(file, can_unlink) ==
    IF file = JMissing THEN [file |-> JMissing, ok |-> TRUE]
    ELSE IF can_unlink THEN [file |-> JMissing, ok |-> TRUE]
    ELSE [file |-> file, ok |-> FALSE]

----------------------------------------------------------------------------
(* anyspecs/config/ai_config.py: the .env file, as its lines *)

\* the index of the first c in s, 0 when there is none
RECURSIVE Find(_, _, _)
Find(s, c, i) ==
    IF i > Len(s) THEN 0 ELSE IF Char(s, i) = c THEN i ELSE Find(s, c, i + 1)

\* value.strip('"\'')
RECURSIVE StripQuotes(_)
StripQuotes(s) ==
    IF Len(s) > 0 /\ Char(s, 1) \in {"\"", "'"} THEN StripQuotes(SubSeq(s, 2, Len(s)))
    ELSE IF Len(s) > 0 /\ Char(s, Len(s)) \in {"\"", "'"}
         THEN StripQuotes(SubSeq(s, 1, Len(s) - 1))
    ELSE s

\* lines 322-329: the configuration key of an environment variable name
EnvKey(name) ==
    CASE name = "ANYSPECS_AI_PROVIDER" -> "provider"
      [] name = "ANYSPECS_AI_API_KEY"  -> "api_key"
      [] name = "ANYSPECS_AI_MODEL"    -> "model"
      [] name = "ANYSPECS_AI_GROUP_ID" -> "group_id"
      [] OTHER                         -> ""

\* lines 315-329: one line of the .env file. The temperature and max_tokens
\* of lines 330-339 are left out
EnvLine(env_config, line) ==
    With(Strip(line), LAMBDA text :
    With(Find(text, "=", 1), LAMBDA eq :
        IF text # "" /\ ~StartsWith(text, "#") /\ eq > 0
        THEN With(EnvKey(Strip(SubSeq(text, 1, eq - 1))), LAMBDA key :
                 IF key = "" THEN env_config
                 ELSE DSet(env_config, key,
                           JStr(StripQuotes(Strip(SubSeq(text, eq + 1, Len(text)))))))
        ELSE env_config))

RECURSIVE EnvLines(_, _, _)
EnvLines(lines, i, env_config) ==
    IF i > Len(lines) THEN env_config
    ELSE With(EnvLine(env_config, lines[i]), LAMBDA next : EnvLines(lines, i + 1, next))

\* lines 304-346
load_from_env(env) ==
    IF env = JMissing THEN EmptyDict ELSE EnvLines(env, 1, EmptyDict)

\* lines 356-365: the lines kept, each one stripped
RECURSIVE ExistingLines(_, _)
ExistingLines(lines, i) ==
    IF i > Len(lines) THEN <<>>
    ELSE (IF StartsWith(Strip(lines[i]), "ANYSPECS_AI_") THEN <<>> ELSE <<Strip(lines[i])>>)
         \o ExistingLines(lines, i + 1)

\* lines 373-380: f'NAME="{settings[key]}"' when settings.get(key) is truthy
SettingLine(settings, key, name) ==
    IF Bool(DGet(settings, key))
    THEN <<name \o "=\"" \o DGet(settings, key).s \o "\"">>
    ELSE <<>>

\* lines 348-399: the file afterwards, and the value returned. The settings
\* given never hold a temperature or max_tokens (lines 382-386)
save_to_env(provider, settings, env, can_write) ==
    With(IF env = JMissing THEN <<>> ELSE ExistingLines(env, 1), LAMBDA existing_lines :
        LET header == IF \E i \in DOMAIN existing_lines :
                            Contains(existing_lines[i], "# AnySpecs AI Configuration")
                      THEN <<>> ELSE <<"", "# AnySpecs AI Configuration">>
            new_lines == existing_lines \o header
                         \o <<"ANYSPECS_AI_PROVIDER=\"" \o provider \o "\"">>
                         \o SettingLine(settings, "api_key", "ANYSPECS_AI_API_KEY")
                         \o SettingLine(settings, "model", "ANYSPECS_AI_MODEL")
                         \o SettingLine(settings, "group_id", "ANYSPECS_AI_GROUP_ID")
        IN IF can_write THEN [env |-> new_lines, ok |-> TRUE]
           ELSE [env |-> env, ok |-> FALSE])

----------------------------------------------------------------------------
(* anyspecs/config/ai_config.py: the calls that use both files *)

\* lines 159-181: the two files and default_config afterwards, and the value
\* returned. config['providers'] is the dict inside default_config, so the
\* update of line 171 changes default_config as well
set_provider_config(provider, settings, file, env, defaults, can_write) ==
    With(load_config(file, defaults), LAMBDA loaded :
    With(Get(DGet(loaded.config, "providers"), EmptyDict), LAMBDA providers :
    With(DSet(providers, provider,
              Update(Get(DGet(providers, provider), EmptyDict), settings, 1)),
         LAMBDA updated :
    With(IF ~Bool(DGet(loaded.config, "default_provider")) /\ Bool(DGet(settings, "api_key"))
         THEN DSet(DSet(loaded.config, "providers", updated), "default_provider",
                   JStr(provider))
         ELSE DSet(loaded.config, "providers", updated),
         LAMBDA config :
        LET config_success == save_config(config, file, "config" \in can_write)
            env_success    == save_to_env(provider, settings, env, "env" \in can_write)
        IN [file     |-> config_success.file,
            env      |-> env_success.env,
            defaults |-> DSet(loaded.defaults, "providers", updated),
            result   |-> config_success.ok /\ env_success.ok]))))

\* lines 183-192: the provider, and default_config afterwards (load_config
\* is called only when the .env file names no provider)
get_default_provider(file, env, defaults) ==
    With(load_from_env(env), LAMBDA env_config :
        IF Bool(DGet(env_config, "provider"))
        THEN [result |-> DGet(env_config, "provider"), defaults |-> defaults]
        ELSE With(load_config(file, defaults), LAMBDA loaded :
                 [result   |-> Get(DGet(loaded.config, "default_provider"), JNull),
                  defaults |-> loaded.defaults]))

----------------------------------------------------------------------------
(* generate_standalone_markdown: the body of one message, line by line *)

Whitespace == {" ", "\n", "\t"}

\* str.lstrip(), str.rstrip() and str.strip() on a text that has line breaks
RECURSIVE WLStrip(_)
WLStrip(s) ==
    IF Len(s) > 0 /\ Char(s, 1) \in Whitespace THEN WLStrip(SubSeq(s, 2, Len(s))) ELSE s

RECURSIVE WRStrip(_)
WRStrip(s) ==
    IF Len(s) > 0 /\ Char(s, Len(s)) \in Whitespace
    THEN WRStrip(SubSeq(s, 1, Len(s) - 1)) ELSE s

WStrip(s) == WRStrip(WLStrip(s))

\* s.endswith(suffix)
EndsWith(s, suffix) ==
    Len(suffix) <= Len(s) /\ SubSeq(s, Len(s) - Len(suffix) + 1, Len(s)) = suffix

\* s.split('\n')
RECURSIVE SplitLines(_)
SplitLines(s) ==
    With(Find(s, "\n", 1), LAMBDA at :
        IF at = 0 THEN <<s>>
        ELSE <<SubSeq(s, 1, at - 1)>> \o SplitLines(SubSeq(s, at + 1, Len(s))))

\* the backquote, written ~ here: a string of this module cannot hold one
Backquote == "~"

\* the line of three backquotes
Fence == Backquote \o Backquote \o Backquote

\* lines 675-678
CodePrefixes ==
    {"import ", "from ", "def ", "class ", "if ", "for ", "while ", "const ", "let ",
     "var ", "function ", "{", "}", "//", "#"}
CodeKeywords == {"function", "const", "let", "var", "=>"}
CodeSuffixes == {";", "{", "}", ":", "))"}

IsCodeLine(line) ==
    \/ \E prefix \in CodePrefixes : StartsWith(WStrip(line), prefix)
    \/ /\ Contains(line, "=")
       /\ \E keyword \in CodeKeywords : Contains(line, keyword)
    \/ \E suffix \in CodeSuffixes : EndsWith(WStrip(line), suffix)

\* mutant of CloseFence: a block open at the last line stays open
CloseFenceNever(in_code_block) == <<>>

\* lines 691-693
CloseFence(in_code_block) == IF in_code_block THEN <<Fence>> ELSE <<>>

\* lines 672-693, from the i-th line on: the lines appended
RECURSIVE ProseLines(_, _, _, _)
ProseLines(lines, i, in_code_block, acc) ==
    IF i > Len(lines) THEN acc \o CloseFence(in_code_block)
    ELSE With(WRStrip(lines[i]), LAMBDA line :
         IF IsCodeLine(line)
         THEN ProseLines(lines, i + 1, TRUE,
                         acc \o (IF in_code_block THEN <<>> ELSE <<Fence>>) \o <<line>>)
         ELSE ProseLines(lines, i + 1, FALSE,
                         acc \o (IF in_code_block THEN <<Fence>> ELSE <<>>)
                             \o <<IF WStrip(line) # "" THEN line ELSE "">>))

\* a message whose content is the string content
TextMessage(content) == Dict(<<"role", "content">>, <<JStr("user"), JStr(content)>>)

\* lines 651-653 and 660-697: the lines appended for a message after its role
\* header
MessageBody(msg) ==
    With(WStrip(ContentOrUnavailable(msg)), LAMBDA processed_content :
        (IF Contains(processed_content, Fence) THEN <<processed_content>>
         ELSE ProseLines(SplitLines(processed_content), 1, FALSE, <<>>))
        \o <<"", "---", "">>)

----------------------------------------------------------------------------
(* extract_chats: the state of one run *)

VARIABLES
    pc,          \* position in extract_chats
    wsSeen,      \* the workspace stores read so far, in processing order
    globalSeen,  \* the global store, once located (<<>> before, <<store>> after)
    ws_proj,     \* workspace id -> project
    comp_meta,   \* conversation id -> session metadata
    comp2ws,     \* conversation id -> workspace id
    sessions,    \* the defaultdict, in insertion order: [cid, messages, db_path]
    out,         \* the returned list
    exc          \* the exception that left extract_chats, if any

pipeVars == <<pc, wsSeen, globalSeen, ws_proj, comp_meta, comp2ws, sessions, out, exc>>

\* one call of extract_project_name_from_path
VARIABLES
    path_pc,           \* "idle", "call" or "returned"
    root_path,         \* the argument, as the components of root_path.split('/')
    current_username,  \* os.path.basename(os.path.expanduser('~'))
    project_name       \* the label returned

pathVars == <<path_pc, root_path, current_username, project_name>>

\* one record on its way through the formatters
VARIABLES
    fmt_pc,     \* "idle", "call", "formatted", "markdown", "html", "dumped",
                \* "loaded", or "raised" when an exception left a formatter
    fmt_chat,       \* the record
    now,        \* datetime.datetime.now().timestamp(), in seconds
    formatted,  \* what format_chat_for_export returned
    gen_input,  \* the argument of the last generator call
    fmt_result,     \* what the last generator, or the decoder, returned
    json_text   \* the structured-data document

fmtVars == <<fmt_pc, fmt_chat, now, formatted, gen_input, fmt_result, json_text>>

\* one run of export_chats
VARIABLES
    exp_pc,     \* "idle", "called", "selected", "loop", "returned" or "raised"
    chats,      \* what extract_chats returned, each with whether its file can be written
    args,       \* args.session_id, args.project, args.all_projects, args.limit
    current_project,  \* get_current_project_name()
    refused,    \* the message of a return before any export, "" when there was none
    selected,   \* filtered_chats
    format_type,     \* args.format
    idx,        \* i of the loop of line 1080
    attempts,   \* the calls of export_chat_to_file and what was reported
    exit_code   \* the value returned, -1 before

expVars == <<exp_pc, chats, args, current_project, refused, selected, format_type, idx,
            attempts, exit_code>>

\* one run of the main of export_claude_history.py
VARIABLES
    hist_pc,        \* "idle", "main", "exported", "authenticate", "upload", "returned", "raised"
    history_dir,    \* the project's history directory: whether it exists, its files
    cli,            \* the command line
    out_writable,   \* whether the output file can be opened for writing
    history_export, \* what export_history did: entries, warnings, file written
    file_exists,    \* os.path.exists(file_path) at line 149
    sent,           \* the requests posted, in order
    auth_response,  \* what the server answered to the login request
    upload_result   \* "" before the call, "pending", "True", "False" or "raised"

histVars == <<hist_pc, history_dir, cli, out_writable, history_export, file_exists, sent,
             auth_response, upload_result>>

\* one process using the AIConfigManager
VARIABLES
    cfg_pc,             \* "idle" or "ready"
    config_file,        \* ~/.anyspecs/ai_config.json
    env_file,           \* ./.env
    default_config,     \* self.default_config
    writable,           \* which of the two files can be written
    calls               \* the calls made so far, with what they returned

cfgVars == <<cfg_pc, config_file, env_file, default_config, writable, calls>>

\* one document produced by generate_standalone_markdown, line by line
VARIABLES
    prose_pc,        \* "idle", "call" or "returned"
    prose_content,   \* the content of the message
    markdown_lines   \* the lines of the document

proseVars == <<prose_pc, prose_content, markdown_lines>>

cursorVars == <<pipeVars, pathVars, fmtVars, expVars>>

toolVars == <<histVars, cfgVars, proseVars>>

vars == <<pipeVars, pathVars, fmtVars, expVars, toolVars>>

\* index of the record of cid in sessions, 0 when it has none
RECURSIVE FindSession(_, _, _)
FindSession(ss, cid, i) ==
    IF i > Len(ss) THEN 0
    ELSE IF ss[i].cid = cid THEN i
    ELSE FindSession(ss, cid, i + 1)

\* sessions[cid], creating {"messages": []} on first touch, then recording
\* db_path if the record has none (creation is always followed by it)
Touch(ss, cid, db) ==
    IF FindSession(ss, cid, 1) # 0 THEN ss
    ELSE Append(ss, [cid |-> cid, messages |-> <<>>, db_path |-> db])

Message(role, content) == [role |-> role, content |-> content]

\* mutant of AddMessage: the record is looked up by id and store, so an id met
\* again in another store starts a second record
AddMessagePerStore(ss, cid, msg, db) ==
    IF \E i \in DOMAIN ss : ss[i].cid = cid /\ ss[i].db_path = db
    THEN LET i == CHOOSE i \in DOMAIN ss : ss[i].cid = cid /\ ss[i].db_path = db
         IN [ss EXCEPT ![i].messages = Append(@, msg)]
    ELSE Append(ss, [cid |-> cid, messages |-> <<msg>>, db_path |-> db])

\* sessions[cid]["messages"].append({"role": role, "content": text})
AddMessage(ss, cid, msg, db) ==
    LET t == Touch(ss, cid, db)
        i == FindSession(t, cid, 1)
    IN [t EXCEPT ![i].messages = Append(@, msg)]

\* mutant of RegisterIfNew: the test "cid not in comp_meta" is left out
RegisterAlways(st, cid, m, ws) ==
    [st EXCEPT !.comp_meta = Put(@, cid, m),
               !.comp2ws   = Put(@, cid, ws)]

\* if cid not in comp_meta: register the default metadata and the workspace
RegisterIfNew(st, cid, m, ws) ==
    IF cid \in DOMAIN st.comp_meta THEN st
    ELSE [st EXCEPT !.comp_meta = Put(@, cid, m),
                    !.comp2ws   = Put(@, cid, ws)]

\* the loops 445-454 and 465-473 over the tuples of a reader
RECURSIVE ConsumeItems(_, _, _, _)
ConsumeItems(items, i, st, ws) ==
    IF i > Len(items) THEN st
    ELSE LET it == items[i]
             s1 == [st EXCEPT !.sessions =
                        AddMessage(@, it.cid, Message(it.role, it.text), it.db)]
         IN ConsumeItems(items, i + 1,
                         RegisterIfNew(s1, it.cid, DefaultMeta(it.cid), ws), ws)

\* lines 439-441: for cid, m in meta.items()
MergeMeta(st, meta, ws) ==
    [st EXCEPT
       !.comp_meta = [c \in DOMAIN @ \cup DOMAIN meta |->
                        IF c \in DOMAIN meta THEN meta[c] ELSE @[c]],
       !.comp2ws   = [c \in DOMAIN @ \cup DOMAIN meta |->
                        IF c \in DOMAIN meta THEN ws ELSE @[c]]]

CurState == [comp_meta |-> comp_meta, comp2ws |-> comp2ws, sessions |-> sessions]

\* one message of the conversation list of a composerData entry
ConversationMsg(ss, cid, m, db) ==
    IF Get(m.type, JNull) = JNull THEN ss
    ELSE LET content == Get(m.text, JStr(""))
         IN IF Truthy(content) /\ IsStr(content)
            THEN AddMessage(ss, cid,
                            Message(IF m.type = JNum(1) THEN "user" ELSE "assistant",
                                    content), db)
            ELSE ss

RECURSIVE ScanConversation(_, _, _, _, _)
ScanConversation(conv, i, ss, cid, db) ==
    IF i > Len(conv) THEN ss
    ELSE ScanConversation(conv, i + 1, ConversationMsg(ss, cid, conv[i], db), cid, db)

\* the body of the loop 478-510 for one (cid, data, db_path); data.get on a
\* value that is not a dict raises AttributeError
ComposerEntry(st, e) ==
    IF e.data.raw # "obj" THEN [st |-> st, raised |-> "AttributeError"]
    ELSE LET createdAt == Get(e.data.createdAt, JNull)
             s1 == RegisterIfNew(st, e.cid,
                                 Meta(ChatTitle(e.cid), createdAt, createdAt),
                                 "(global)")
             s2 == [s1 EXCEPT !.sessions = Touch(@, e.cid, e.db)]
         IN [st |-> [s2 EXCEPT !.sessions =
                        ScanConversation(e.data.conversation, 1, @, e.cid, e.db)],
             raised |-> NoExc]

RECURSIVE ConsumeComposerData(_, _, _)
ConsumeComposerData(entries, i, acc) ==
    IF i > Len(entries) \/ acc.raised # NoExc THEN acc
    ELSE ConsumeComposerData(entries, i + 1, ComposerEntry(acc.st, entries[i]))

----------------------------------------------------------------------------
(* extract_chats: the final list *)

\* key=lambda s: s["session"].get("lastUpdatedAt") or 0
SortKey(chat) ==
    IF Truthy(chat.session.lastUpdatedAt) THEN chat.session.lastUpdatedAt.n ELSE 0

\* list.sort(key, reverse=True) is stable: a record goes after every record
\* whose key is greater or equal
RECURSIVE InsertByKey(_, _, _)
InsertByKey(sorted, chat, i) ==
    IF i > Len(sorted) THEN Append(sorted, chat)
    ELSE IF SortKey(sorted[i]) < SortKey(chat)
         THEN SubSeq(sorted, 1, i - 1) \o <<chat>> \o SubSeq(sorted, i, Len(sorted))
         ELSE InsertByKey(sorted, chat, i + 1)

RECURSIVE SortByLastUpdated(_, _, _)
SortByLastUpdated(list, i, acc) ==
    IF i > Len(list) THEN acc
    ELSE SortByLastUpdated(list, i + 1, InsertByKey(acc, list[i], 1))

\* mutant of SkipEmpty: the test of line 518 is left out
SkipEmptyNever(data) == FALSE

\* if not data["messages"]: continue
SkipEmpty(data) == data.messages = <<>>

ChatData(data, st, projs) ==
    LET ws_id == Lookup(st.comp2ws, data.cid, "(unknown)")
        meta  == Lookup(st.comp_meta, data.cid, Meta("(untitled)", JNull, JNull))
    IN [project      |-> Lookup(projs, ws_id, UnknownProject),
        session      |-> [composerId    |-> data.cid,
                          title         |-> meta.title,
                          createdAt     |-> meta.createdAt,
                          lastUpdatedAt |-> meta.lastUpdatedAt],
        messages     |-> data.messages,
        workspace_id |-> ws_id,
        db_path      |-> data.db_path]

RECURSIVE BuildList(_, _, _, _, _)
BuildList(ss, i, acc, st, projs) ==
    IF i > Len(ss) THEN acc
    ELSE BuildList(ss, i + 1,
                   IF SkipEmpty(ss[i]) THEN acc
                   ELSE Append(acc, ChatData(ss[i], st, projs)),
                   st, projs)

----------------------------------------------------------------------------
(* The stores a run may find on disk *)

\* conversation ids
Ids == {"c1", "c2"}

\* the folders of workspaceStorage, in the order workspaces() yields them
WsOrder == <<"w1", "w2">>

\* name of the global state.vscdb
GlobalDb == "globalStorage"

TsVals == {JNull} \cup {JNum(n) : n \in 0..MaxTs}

Absent == [raw |-> "absent"]

Msg(role, content) == [role |-> role, content |-> content]
UserHi == Msg(JStr("user"), JStr("hi"))

Comp(cid, name, ts, msgs) ==
    [composerId |-> cid, name |-> name, createdAt |-> ts, lastUpdatedAt |-> ts,
     messages |-> msgs]

ComposerData(raw, comps) == [raw |-> raw, allComposers |-> comps]

\* allComposers lists: one well-formed composer (with or without messages),
\* one composer whose message carries another role, a non-string or an empty
\* content, and an entry without composerId next to a well-formed one
ComposerLists(ws) ==
    {<<Comp(JStr(c), JStr("T-" \o ws), t, m)>> :
        c \in Ids, t \in TsVals, m \in {<<>>, <<UserHi>>}}
    \cup {<<Comp(JStr("c1"), JMissing, JMissing, <<m>>)>> :
        m \in {Msg(JStr("system"), JStr("hi")),
               Msg(JMissing, JNum(5)),
               Msg(JStr("user"), JStr(""))}}
    \cup {<<Comp(JStr("c2"), JStr("T-" \o ws), JNull, <<UserHi>>),
            Comp(JMissing, JStr("T-" \o ws), JNull, <<UserHi>>)>>}

TabBubbleRec(type, text, content) == [type |-> type, text |-> text, content |-> content]
Tab(tabId, bubbles) == [tabId |-> tabId, bubbles |-> bubbles]
ChatDoc(raw, tabs) == [raw |-> raw, hasTabs |-> tabs # <<>>, tabs |-> tabs]

TabLists ==
    {<<Tab(JStr(c), <<TabBubbleRec(JStr("user"), JStr("yo"), JMissing)>>)>> : c \in Ids}
    \cup {<<Tab(JMissing, <<TabBubbleRec(JStr("ai"), JMissing, JStr("re"))>>)>>,
          <<Tab(JStr("c1"), <<TabBubbleRec(JStr("ai"), JNum(5), JMissing),
                              TabBubbleRec(JMissing, JStr("x"), JMissing)>>)>>}

ServiceList(raw, items) == [raw |-> raw, items |-> items]
ServiceEntry(text) == [isDict |-> TRUE, text |-> text]

WsProject(ws) == [name |-> "proj-" \o ws, rootPath |-> "/r/" \o ws]

WsStore(ws, hasTable, proj, cd, ch, pr, ge) ==
    [id |-> ws, hasItemTable |-> hasTable, proj |-> proj,
     composerData |-> cd, chatdata |-> ch, prompts |-> pr, generations |-> ge]

NoComposerData == ComposerData("absent", <<>>)
NoChatDoc      == ChatDoc("absent", <<>>)
NoService      == ServiceList("absent", <<>>)

\* the contents the store of workspace ws may have
WsStores(ws) ==
    \* no ItemTable at all; an ItemTable with none of the keys
    {WsStore(ws, FALSE, UnknownProject, NoComposerData, NoChatDoc, NoService, NoService),
     WsStore(ws, TRUE, UnknownProject, NoComposerData, NoChatDoc, NoService, NoService)}
    \* composer.composerData only
    \cup {WsStore(ws, TRUE, WsProject(ws), ComposerData("obj", l), NoChatDoc,
                  NoService, NoService) : l \in ComposerLists(ws)}
    \cup {WsStore(ws, TRUE, WsProject(ws), ComposerData(r, <<>>), NoChatDoc,
                  NoService, NoService) : r \in {"bad", "list"}}
    \* chatdata only
    \cup {WsStore(ws, TRUE, WsProject(ws), NoComposerData, ChatDoc("obj", t),
                  NoService, NoService) : t \in TabLists}
    \* a composer known by its metadata whose messages are in a tab
    \cup {WsStore(ws, TRUE, WsProject(ws),
                  ComposerData("obj", <<Comp(JStr("c1"), JStr("T-" \o ws), JNum(MaxTs), <<>>)>>),
                  ChatDoc("obj", <<Tab(JStr("c1"),
                                       <<TabBubbleRec(JStr("user"), JStr("yo"), JMissing)>>)>>),
                  NoService, NoService)}
    \* aiService.prompts and aiService.generations
    \cup {WsStore(ws, TRUE, WsProject(ws), NoComposerData, NoChatDoc,
                  ServiceList("list", <<ServiceEntry(p)>>),
                  ServiceList("list", <<ServiceEntry(JStr("hello"))>>)) :
              p \in {JStr("hi"), JNull}}
    \* several prompts and generations: blank texts, an entry without text and
    \* an entry that is not a dict among them
    \cup {WsStore(ws, TRUE, WsProject(ws), NoComposerData, NoChatDoc,
                  ServiceList("list", <<ServiceEntry(JStr(" hi ")), ServiceEntry(JStr("")),
                                        ServiceEntry(JMissing),
                                        [isDict |-> FALSE, text |-> JMissing],
                                        ServiceEntry(JStr("q2"))>>),
                  ServiceList("list", <<ServiceEntry(JStr("hello")), ServiceEntry(JStr(" ")),
                                        ServiceEntry(JStr("a2"))>>))}

BubbleRec(cid, raw, text, richText, type) ==
    [cid |-> cid, raw |-> raw, text |-> text, richText |-> richText, type |-> type]

ValidBubble == BubbleRec("c1", "obj", JStr("hi"), JMissing, JNum(1))

\* rows whose text yields a message
GoodBubbles ==
    {BubbleRec(c, "obj", JStr("hi"), JMissing, JNum(1)) : c \in Ids}
    \cup {BubbleRec("c1", "obj", JStr("yo"), JMissing, JNum(2)),
          BubbleRec("c1", "obj", JMissing, JStr(" rt "), JMissing)}

\* rows that are dropped, skipped or malformed
OddBubbles ==
    {BubbleRec("c1", "obj", JStr("  "), JMissing, JNum(1)),
     BubbleRec("c1", "obj", JNum(5), JMissing, JNum(1)),
     BubbleRec("c1", "null", JMissing, JMissing, JMissing),
     BubbleRec("c1", "bad", JMissing, JMissing, JMissing),
     BubbleRec("c1", "list", JMissing, JMissing, JMissing)}

BubbleLists ==
    {<<>>} \cup {<<b>> : b \in GoodBubbles \cup OddBubbles}
           \cup {<<b, ValidBubble>> : b \in OddBubbles}

ConvMsg(type, text) == [type |-> type, text |-> text]
ComposerRec(cid, raw, createdAt, conv) ==
    [cid |-> cid, raw |-> raw, createdAt |-> createdAt, conversation |-> conv]

ValidComposerRec == ComposerRec("c1", "obj", JMissing, <<ConvMsg(JNum(1), JStr("hi"))>>)

ComposerRecs ==
    {ComposerRec(c, "obj", t, <<ConvMsg(JNum(1), JStr("hi"))>>) : c \in Ids, t \in TsVals}
    \cup {ComposerRec("c1", "obj", JNum(MaxTs), <<>>),
          ComposerRec("c1", "obj", JMissing,
                      <<ConvMsg(JMissing, JStr("hi")), ConvMsg(JNum(2), JNum(5)),
                        ConvMsg(JNum(2), JStr("ok"))>>),
          ComposerRec("c1", "null", JMissing, <<>>),
          ComposerRec("c1", "bad", JMissing, <<>>),
          ComposerRec("c1", "list", JMissing, <<>>)}

ComposerRecLists ==
    {<<>>} \cup {<<r>> : r \in ComposerRecs}
           \cup {<<ComposerRec("c2", "bad", JMissing, <<>>), ValidComposerRec>>}

GlobalStore(hasTable, bubbles, composers) ==
    [id |-> GlobalDb, hasDiskKV |-> hasTable, bubbles |-> bubbles, composers |-> composers]

GlobalStores ==
    {GlobalStore(FALSE, <<>>, <<>>)}
    \cup {GlobalStore(TRUE, b, c) : b \in BubbleLists, c \in ComposerRecLists}

----------------------------------------------------------------------------
(* extract_chats: the steps *)

InitPipe ==
    /\ pc = "workspaces"
    /\ wsSeen = <<>>
    /\ globalSeen = <<>>
    /\ ws_proj = EmptyMap
    /\ comp_meta = EmptyMap
    /\ comp2ws = EmptyMap
    /\ sessions = <<>>
    /\ out = <<>>
    /\ exc = NoExc

\* the command line of `export --all-projects`
NoArgs == [session_id |-> JNull, project |-> JNull, all_projects |-> TRUE, limit |-> JNull]

\* no call of extract_project_name_from_path is under way
PathIdle ==
    /\ path_pc = "idle"
    /\ root_path = <<"">>
    /\ current_username = "alice"
    /\ project_name = ""

\* no record is being formatted
FmtIdle ==
    /\ fmt_pc = "idle"
    /\ fmt_chat = EmptyDict
    /\ now = 0
    /\ formatted = Returned(JNull)
    /\ gen_input = EmptyDict
    /\ fmt_result = Returned(JNull)
    /\ json_text = ""

\* no export is under way
ExportIdle ==
    /\ exp_pc = "idle"
    /\ chats = <<>>
    /\ args = NoArgs
    /\ current_project = ""
    /\ refused = ""
    /\ selected = <<>>
    /\ format_type = ""
    /\ idx = 0
    /\ attempts = <<>>
    /\ exit_code = -1

\* export_claude_history.py is not running
HistIdle ==
    /\ hist_pc = "idle"
    /\ history_dir = [exists |-> FALSE, files |-> <<>>]
    /\ cli = NoCli
    /\ out_writable = TRUE
    /\ history_export = NotExported
    /\ file_exists = TRUE
    /\ sent = <<>>
    /\ auth_response = ""
    /\ upload_result = ""

\* no AIConfigManager is in use
CfgIdle ==
    /\ cfg_pc = "idle"
    /\ config_file = JMissing
    /\ env_file = JMissing
    /\ default_config = BuiltinConfig
    /\ writable = {}
    /\ calls = <<>>

\* no document is being laid out
ProseIdle ==
    /\ prose_pc = "idle"
    /\ prose_content = ""
    /\ markdown_lines = <<>>

ToolsIdle == HistIdle /\ CfgIdle /\ ProseIdle

Init == InitPipe /\ PathIdle /\ FmtIdle /\ ExportIdle /\ ToolsIdle

SetState(st) ==
    /\ comp_meta' = st.comp_meta
    /\ comp2ws' = st.comp2ws
    /\ sessions' = st.sessions

Abort(e) ==
    /\ pc' = "raised"
    /\ exc' = e

\* one iteration of the loop over workspaces(root), lines 434-455
ProcessWorkspace ==
    /\ pc = "workspaces"
    /\ Len(wsSeen) < Len(WsOrder)
    /\ \E store \in WsStores(WsOrder[Len(wsSeen) + 1]) :
         LET info == workspace_info(store)
             r    == iter_chat_from_item_table(store)
             s1   == MergeMeta(CurState, info.meta, store.id)
             s2   == ConsumeItems(r.items, 1, s1, store.id)
         IN /\ wsSeen' = Append(wsSeen, store)
            /\ IF info.raised # NoExc
               THEN /\ Abort(info.raised)
                    /\ UNCHANGED <<ws_proj, comp_meta, comp2ws, sessions>>
               ELSE /\ ws_proj' = Put(ws_proj, store.id, info.proj)
                    /\ SetState(s2)
                    /\ IF r.raised # NoExc
                       THEN Abort(r.raised)
                       ELSE UNCHANGED <<pc, exc>>
    /\ UNCHANGED <<globalSeen, out>>
    /\ UNCHANGED <<pathVars, fmtVars, expVars, toolVars>>

\* global_storage_path(root) finds a global store, line 460
GlobalFound ==
    /\ pc = "workspaces"
    /\ \E store \in GlobalStores : globalSeen' = <<store>>
    /\ pc' = "bubbles"
    /\ UNCHANGED <<wsSeen, ws_proj, comp_meta, comp2ws, sessions, out, exc>>
    /\ UNCHANGED <<pathVars, fmtVars, expVars, toolVars>>

\* global_storage_path(root) returns None
GlobalMissing ==
    /\ pc = "workspaces"
    /\ pc' = "build"
    /\ UNCHANGED <<wsSeen, globalSeen, ws_proj, comp_meta, comp2ws, sessions, out, exc>>
    /\ UNCHANGED <<pathVars, fmtVars, expVars, toolVars>>

\* lines 465-474
ProcessGlobalBubbles ==
    /\ pc = "bubbles"
    /\ LET r == iter_bubbles_from_disk_kv(globalSeen[1])
       IN /\ SetState(ConsumeItems(r.items, 1, CurState, "(global)"))
          /\ IF r.raised # NoExc
             THEN Abort(r.raised)
             ELSE pc' = "composer" /\ UNCHANGED exc
    /\ UNCHANGED <<wsSeen, globalSeen, ws_proj, out>>
    /\ UNCHANGED <<pathVars, fmtVars, expVars, toolVars>>

\* lines 478-513
ProcessGlobalComposerData ==
    /\ pc = "composer"
    /\ LET r == iter_composer_data(globalSeen[1])
           c == ConsumeComposerData(r.items, 1, [st |-> CurState, raised |-> NoExc])
       IN /\ SetState(c.st)
          /\ IF c.raised # NoExc
             THEN Abort(c.raised)
             ELSE pc' = "build" /\ UNCHANGED exc
    /\ UNCHANGED <<wsSeen, globalSeen, ws_proj, out>>
    /\ UNCHANGED <<pathVars, fmtVars, expVars, toolVars>>

\* lines 515-541: build the list, sort it, return it
BuildOutput ==
    /\ pc = "build"
    /\ out' = SortByLastUpdated(BuildList(sessions, 1, <<>>, CurState, ws_proj), 1, <<>>)
    /\ pc' = "done"
    /\ UNCHANGED <<wsSeen, globalSeen, ws_proj, comp_meta, comp2ws, sessions, exc>>
    /\ UNCHANGED <<pathVars, fmtVars, expVars, toolVars>>

Next ==
    \/ ProcessWorkspace
    \/ GlobalFound
    \/ GlobalMissing
    \/ ProcessGlobalBubbles
    \/ ProcessGlobalComposerData
    \/ BuildOutput

Spec == Init /\ [][Next]_vars

----------------------------------------------------------------------------
(* extract_project_name_from_path: the calls *)

SegVocab == {"", "Users", "home", "alice", "bob", "Documents", "codebase",
             "myproj", "cursor", "src", "Library"}

Usernames == {"alice", "bob"}

\* /Users/alice/Documents/codebase/myproj/src/main.py
ScenarioPaths ==
    {<<"", "Users", "alice", "Documents", "codebase", "myproj", "src", "main.py">>}

\* the argument is "", or "/a/b/..." or "a/b/..." with at most MaxSegs
\* components, which may be empty ("/" is <<"", "">>, "a//b" is <<"a", "", "b">>),
\* or the path of the scenario
InitPath ==
    /\ InitPipe
    /\ ToolsIdle
    /\ FmtIdle
    /\ ExportIdle
    /\ path_pc = "call"
    /\ \E k \in 0..MaxSegs, leading \in BOOLEAN :
          \E q \in [1..k -> SegVocab] :
             /\ ~leading => (k >= 1 /\ q[1] # "")
             /\ root_path \in {(IF leading THEN <<"">> ELSE <<>>) \o q} \cup ScenarioPaths
    /\ current_username \in Usernames
    /\ project_name = ""

ExtractProjectName ==
    /\ path_pc = "call"
    /\ LET label == extract_project_name_from_path(root_path, current_username)
       IN IF label = IndexError
          THEN path_pc' = "raised" /\ project_name' = project_name
          ELSE path_pc' = "returned" /\ project_name' = label
    /\ UNCHANGED <<root_path, current_username>>
    /\ UNCHANGED <<pipeVars, fmtVars, expVars, toolVars>>

NextPath == ExtractProjectName

SpecPath == InitPath /\ [][NextPath]_vars

----------------------------------------------------------------------------
(* The formatters: the calls *)

\* a dict literal: the keys whose value is not JMissing, in the order given
RECURSIVE DictOf(_, _, _, _)
DictOf(keys, vals, i, acc) ==
    IF i > Len(keys) THEN acc
    ELSE DictOf(keys, vals, i + 1,
                IF vals[i] = JMissing THEN acc
                ELSE Dict(Append(acc.keys, keys[i]), Append(acc.vals, vals[i])))

\* the records extract_chats may return, and records that are out of shape
ProjectVals ==
    {Dict(<<"name", "rootPath">>, <<JStr("my \"proj\""), JStr("/home/bob/my \"proj\"")>>),
     JStr("x"), JMissing}

CreatedAtVals == {JMissing, JNull, JNum(0), JNum(1), JNum(1500), JStr("x"), JBig}

SessionOf(created_at) ==
    DictOf(<<"composerId", "title", "createdAt", "lastUpdatedAt">>,
           <<JStr("c1"), JStr("t"), created_at, JNull>>, 1, EmptyDict)

SessionVals == {SessionOf(ca) : ca \in CreatedAtVals} \cup {EmptyDict, JNull, JMissing}

MessageOf(role, content) ==
    DictOf(<<"role", "content">>, <<JStr(role), content>>, 1, EmptyDict)

ContentVals ==
    {JStr(" a<b\n\\ \"c\" "), JStr(""), JNum(5), JNull, List(<<JNum(1)>>),
     Dict(<<"a">>, <<JNum(1)>>), JMissing}

MessageVals ==
    {MessageOf("user", c) : c \in ContentVals}
    \cup {MessageOf("assistant", JStr("hello")), JStr("x")}

NonListVals == {JNum(5), JNull, JMissing}

ChatOf(project, session, messages) ==
    DictOf(<<"project", "session", "messages", "workspace_id", "db_path">>,
           <<project, session, messages,
             IF project = JMissing THEN JMissing ELSE JStr("w1"), JStr("db")>>,
           1, EmptyDict)

\* the readings of the clock, in seconds
Clock == {1700}

InitFormat ==
    /\ InitPipe
    /\ ToolsIdle
    /\ PathIdle
    /\ ExportIdle
    /\ fmt_pc = "call"
    /\ \E project \in ProjectVals, session \in SessionVals :
          \/ \E k \in 0..MaxMsgs : \E q \in [1..k -> MessageVals] :
                fmt_chat = ChatOf(project, session, List(q))
          \/ \E m \in NonListVals : fmt_chat = ChatOf(project, session, m)
    /\ now \in Clock
    /\ formatted = Returned(JNull)
    /\ gen_input = EmptyDict
    /\ fmt_result = Returned(JNull)
    /\ json_text = ""

\* formatted_chat = format_chat_for_export(chat)
FormatChat ==
    /\ fmt_pc = "call"
    /\ formatted' = format_chat_for_export(fmt_chat, now, "uuid-1", "uuid-2")
    /\ fmt_pc' = "formatted"
    /\ UNCHANGED <<fmt_chat, now, gen_input, fmt_result, json_text>>
    /\ UNCHANGED <<pipeVars, pathVars, expVars, toolVars>>

\* generate_standalone_markdown, called with the record or with the formatted
\* record
GenerateMarkdown ==
    /\ fmt_pc \in {"call", "formatted"}
    /\ gen_input' = IF fmt_pc = "call" THEN fmt_chat ELSE formatted.value
    /\ fmt_result' = generate_standalone_markdown(gen_input')
    /\ fmt_pc' = IF fmt_result'.raised # NoExc THEN "raised" ELSE "markdown"
    /\ UNCHANGED <<fmt_chat, now, formatted, json_text>>
    /\ UNCHANGED <<pipeVars, pathVars, expVars, toolVars>>

\* generate_standalone_html, called with the record or with the formatted record
GenerateHtml ==
    /\ fmt_pc \in {"call", "formatted"}
    /\ gen_input' = IF fmt_pc = "call" THEN fmt_chat ELSE formatted.value
    /\ fmt_result' = generate_standalone_html(gen_input')
    /\ fmt_pc' = IF fmt_result'.raised # NoExc THEN "raised" ELSE "html"
    /\ UNCHANGED <<fmt_chat, now, formatted, json_text>>
    /\ UNCHANGED <<pipeVars, pathVars, expVars, toolVars>>

\* content = json.dumps(formatted_chat, indent=2, ensure_ascii=False)
DumpJson ==
    /\ fmt_pc = "formatted"
    /\ json_text' = Dumps(formatted.value, 0)
    /\ fmt_pc' = "dumped"
    /\ UNCHANGED <<fmt_chat, now, formatted, gen_input, fmt_result>>
    /\ UNCHANGED <<pipeVars, pathVars, expVars, toolVars>>

\* the document is read back
LoadJson ==
    /\ fmt_pc = "dumped"
    /\ fmt_result' = Loads(json_text)
    /\ fmt_pc' = IF fmt_result'.raised # NoExc THEN "raised" ELSE "loaded"
    /\ UNCHANGED <<fmt_chat, now, formatted, gen_input, json_text>>
    /\ UNCHANGED <<pipeVars, pathVars, expVars, toolVars>>

NextFormat == FormatChat \/ GenerateMarkdown \/ GenerateHtml \/ DumpJson \/ LoadJson

SpecFormat == InitFormat /\ [][NextFormat]_vars

----------------------------------------------------------------------------
(* export_chats: the steps *)

ExportTimestamps == {JNull, JNum(0), JNum(1500), JStr("2024-01-01")}

\* a record as extract_chats assembles it (lines 525-535)
ExportRecordOf(cid, project, created_at, last_updated) ==
    Dict(<<"project", "session", "messages", "workspace_id", "db_path">>,
         <<Dict(<<"name", "rootPath">>, <<JStr(project), JStr("/home/bob/" \o project)>>),
           Dict(<<"composerId", "title", "createdAt", "lastUpdatedAt">>,
                <<JStr(cid), JStr("t"), created_at, last_updated>>),
           List(<<MessageOf("user", JStr("hi"))>>),
           JStr("w1"), JStr("db")>>)

ExportRecord(created_at, last_updated) ==
    ExportRecordOf("c1", "my proj", created_at, last_updated)

\* a selected session, and whether the file system lets its file be written
Selection ==
    {[record |-> ExportRecord(ca, lu), writable |-> w] :
        ca \in ExportTimestamps, lu \in {JNull, JNum(1000)}, w \in BOOLEAN}

Formats == {"json", "markdown", "html"}

\* sessions of several projects and ids, for the filters
FilterRecords ==
    {[record |-> ExportRecordOf(r[1], r[2], JNum(1500), JNull), writable |-> TRUE] :
        r \in {<<"c1", "Proj">>, <<"c2", "other">>, <<"d1", "my_proj">>,
               <<"c12", "my proj">>}}

\* sessions whose project names hold a dot or look like a generated name, with
\* equal and with missing timestamps
NamingRecords ==
    {[record |-> ExportRecordOf("c1", project, ts, ts), writable |-> TRUE] :
        project \in {"p", "app.js", "p-chat002-002"}, ts \in {JNull, JNum(1500)}}

SessionIdArgs == {JNull, JStr(""), JStr("c"), JStr("c1"), JStr("x")}
ProjectArgs   == {JNull, JStr("PROJ"), JStr("x")}
LimitArgs     == {JNull} \cup {JNum(n) : n \in -2..2}

FilterArgs ==
    [session_id : SessionIdArgs, project : ProjectArgs, all_projects : BOOLEAN,
     limit : LimitArgs]

\* every session of one project with any timestamps and any format,
\* sessions of several projects under any filters, or sessions named alike
InitExport ==
    /\ InitPipe
    /\ ToolsIdle
    /\ PathIdle
    /\ FmtIdle
    /\ exp_pc = "called"
    /\ \/ /\ \E k \in 1..MaxSel : \E q \in [1..k -> Selection] : chats = q
          /\ args = NoArgs
          /\ format_type \in Formats
       \/ /\ \E k \in 0..MaxSel : \E q \in [1..k -> FilterRecords] : chats = q
          /\ args \in FilterArgs
          /\ format_type = "markdown"
       \/ /\ \E k \in 1..MaxSel : \E q \in [1..k -> NamingRecords] : chats = q
          /\ args = NoArgs
          /\ format_type = "markdown"
    /\ current_project = "proj"
    /\ refused = ""
    /\ selected = <<>>
    /\ idx = 0
    /\ attempts = <<>>
    /\ exit_code = -1

\* lines 1004-1047
SelectChats ==
    /\ exp_pc = "called"
    /\ LET selection == select_chats(chats, args, current_project)
       IN /\ refused' = selection.refused
          /\ selected' = selection.filtered
          /\ IF selection.refused # ""
             THEN exp_pc' = "returned" /\ exit_code' = 1
             ELSE exp_pc' = "selected" /\ UNCHANGED exit_code
    /\ UNCHANGED <<chats, args, current_project, format_type, idx, attempts>>
    /\ UNCHANGED <<pipeVars, pathVars, fmtVars, toolVars>>

\* lines 1052-1071: one session
ExportSingle ==
    /\ exp_pc = "selected"
    /\ Len(selected) = 1
    /\ \E t \in Clock :
          LET exported == export_chat_to_file(selected[1].record, format_type,
                                              SingleFileName(selected[1].record),
                                              selected[1].writable, t)
          IN /\ attempts' = <<Attempt(1, exported)>>
             /\ exit_code' = IF exported.raised = NoExc THEN 0 ELSE 1
    /\ exp_pc' = "returned"
    /\ UNCHANGED <<chats, args, current_project, refused, selected, format_type, idx>>
    /\ UNCHANGED <<pipeVars, pathVars, fmtVars, toolVars>>

\* lines 1073-1078
StartBatch ==
    /\ exp_pc = "selected"
    /\ Len(selected) # 1
    /\ idx' = 1
    /\ exp_pc' = "loop"
    /\ UNCHANGED <<chats, args, current_project, refused, selected, format_type, attempts, exit_code>>
    /\ UNCHANGED <<pipeVars, pathVars, fmtVars, toolVars>>

\* lines 1080-1115: one pass of the loop
ExportNext ==
    /\ exp_pc = "loop"
    /\ idx <= Len(selected)
    /\ IF TimestampRaises(selected[idx].record) # NoExc
       THEN /\ exp_pc' = "raised"
            /\ UNCHANGED <<idx, attempts>>
       ELSE /\ \E t \in Clock :
                  attempts' = Append(attempts,
                      Attempt(idx, export_chat_to_file(selected[idx].record, format_type,
                                                       BatchFileName(selected[idx].record, idx),
                                                       selected[idx].writable, t)))
            /\ idx' = idx + 1
            /\ exp_pc' = "loop"
    /\ UNCHANGED <<chats, args, current_project, refused, selected, format_type, exit_code>>
    /\ UNCHANGED <<pipeVars, pathVars, fmtVars, toolVars>>

\* lines 1117-1119
FinishBatch ==
    /\ exp_pc = "loop"
    /\ idx > Len(selected)
    /\ exit_code' = 0
    /\ exp_pc' = "returned"
    /\ UNCHANGED <<chats, args, current_project, refused, selected, format_type, idx, attempts>>
    /\ UNCHANGED <<pipeVars, pathVars, fmtVars, toolVars>>

NextExport == SelectChats \/ ExportSingle \/ StartBatch \/ ExportNext \/ FinishBatch

SpecExport == InitExport /\ [][NextExport]_vars

----------------------------------------------------------------------------
(* export_claude_history.py: the steps of main *)

\* a line of a history file: blank, an entry, not JSON, JSON but not an object
LineVocab ==
    {"", " {\"type\": \"user\"} ", "{\"a\": 1}", "{bad", "5", "[1]"}

HistoryFile(path, readable, lines) == [path |-> path, readable |-> readable, lines |-> lines]

GoodFile(path) == HistoryFile(path, TRUE, <<"{\"type\": \"tool\"}">>)

\* directories of one or two files
HistoryDirs ==
    LET Files(path) ==
            {HistoryFile(path, FALSE, <<>>)}
            \cup {HistoryFile(path, TRUE, q) :
                    q \in UNION {[1..k -> LineVocab] : k \in 0..MaxLines}}
    IN {<<f>> : f \in Files("h1.jsonl")}
       \cup {<<f, GoodFile("h2.jsonl")>> : f \in Files("h1.jsonl")}
       \cup {<<GoodFile("h1.jsonl"), f>> : f \in Files("h2.jsonl")}

Credentials == {JNull, JStr(""), JStr("u")}

\* any history under a plain export, or a small history under any command line
InitHistory ==
    /\ InitPipe
    /\ PathIdle
    /\ FmtIdle
    /\ ExportIdle
    /\ CfgIdle
    /\ ProseIdle
    /\ hist_pc = "main"
    /\ \/ /\ history_dir \in {[exists |-> TRUE, files |-> d] : d \in HistoryDirs}
          /\ cli \in {[NoCli EXCEPT !.limit = l] : l \in {JNull, JNum(0), JNum(1), JNum(-1)}}
       \/ /\ history_dir \in {[exists |-> FALSE, files |-> <<>>],
                              [exists |-> TRUE, files |-> <<>>],
                              [exists |-> TRUE, files |-> <<GoodFile("h1.jsonl")>>],
                              [exists |-> TRUE,
                               files |-> <<HistoryFile("h1.jsonl", TRUE, <<"{bad">>)>>]}
          /\ cli \in [output : {JNull, JStr("out.json")}, format : {"json", "jsonl", "markdown"},
                      limit : {JNull}, summary : BOOLEAN, upload : BOOLEAN,
                      username : Credentials, password : Credentials]
    /\ out_writable \in BOOLEAN
    /\ history_export = NotExported
    /\ file_exists = TRUE
    /\ sent = <<>>
    /\ auth_response = ""
    /\ upload_result = ""

\* lines 210-218
Summary ==
    /\ hist_pc = "main"
    /\ cli.summary
    /\ hist_pc' = "returned"
    /\ UNCHANGED <<history_dir, cli, out_writable, history_export, file_exists, sent,
                   auth_response, upload_result>>
    /\ UNCHANGED <<cursorVars, cfgVars, proseVars>>

\* lines 221-225
ExportHistory ==
    /\ hist_pc = "main"
    /\ ~cli.summary
    /\ history_export' = export_history(history_dir, OutputFile(cli), cli.limit, out_writable)
    /\ hist_pc' = IF history_export'.raised # NoExc THEN "raised" ELSE "exported"
    /\ UNCHANGED <<history_dir, cli, out_writable, file_exists, sent, auth_response,
                   upload_result>>
    /\ UNCHANGED <<cursorVars, cfgVars, proseVars>>

\* lines 227-230: nothing to upload, or no credentials
SkipUpload ==
    /\ hist_pc = "exported"
    /\ ~UploadWanted(cli, history_export.file)
    /\ hist_pc' = "returned"
    /\ UNCHANGED <<history_dir, cli, out_writable, history_export, file_exists, sent,
                   auth_response, upload_result>>
    /\ UNCHANGED <<cursorVars, cfgVars, proseVars>>

\* lines 232 and 149-151
CallUpload ==
    /\ hist_pc = "exported"
    /\ UploadWanted(cli, history_export.file)
    /\ file_exists' \in BOOLEAN
    /\ IF file_exists'
       THEN hist_pc' = "authenticate" /\ upload_result' = "pending"
       ELSE hist_pc' = "returned" /\ upload_result' = "False"
    /\ UNCHANGED <<history_dir, cli, out_writable, history_export, sent, auth_response>>
    /\ UNCHANGED <<cursorVars, cfgVars, proseVars>>

\* lines 154-166
Authenticate ==
    /\ hist_pc = "authenticate"
    /\ \E response \in AuthResponses : \E then \in AfterLogin(response) :
          /\ auth_response' = response
          /\ sent' = Append(sent, Request("/api/login", ""))
          /\ CASE then = "upload" -> hist_pc' = "upload" /\ UNCHANGED upload_result
               [] then = "False"  -> hist_pc' = "returned" /\ upload_result' = "False"
               [] OTHER           -> hist_pc' = "raised" /\ upload_result' = "raised"
    /\ UNCHANGED <<history_dir, cli, out_writable, history_export, file_exists>>
    /\ UNCHANGED <<cursorVars, cfgVars, proseVars>>

\* lines 169-187; the file may be gone when line 175 opens it
Upload ==
    /\ hist_pc = "upload"
    /\ \/ /\ hist_pc' = "raised"
          /\ upload_result' = "raised"
          /\ UNCHANGED sent
       \/ \E response \in UploadResponses : \E then \in AfterUpload(response) :
             /\ sent' = Append(sent, Request("/api/upload", "Bearer token"))
             /\ upload_result' = then
             /\ hist_pc' = IF then = "raised" THEN "raised" ELSE "returned"
    /\ UNCHANGED <<history_dir, cli, out_writable, history_export, file_exists, auth_response>>
    /\ UNCHANGED <<cursorVars, cfgVars, proseVars>>

NextHistory == Summary \/ ExportHistory \/ SkipUpload \/ CallUpload \/ Authenticate \/ Upload

SpecHistory == InitHistory /\ [][NextHistory]_vars

----------------------------------------------------------------------------
(* AIConfigManager: the calls made on one manager of one process *)

\* a file that an earlier process saved: kimi has a key and is the default
SavedConfig ==
    DSet(DSet(BuiltinConfig, "default_provider", JStr("kimi")), "providers",
         DSet(DGet(BuiltinConfig, "providers"), "kimi",
              DSet(DGet(DGet(BuiltinConfig, "providers"), "kimi"), "api_key", JStr("zz"))))

\* a file whose content is not a JSON object
CorruptConfig == JStr("{")

\* the .env file of a user who wrote it by hand
OwnEnv == <<"DEBUG=1", " ANYSPECS_AI_MODEL = 'own' ">>

\* the provider and the keyword arguments of a call of set_provider_config
ProviderArgs ==
    {<<"aihubmix", Dict(<<"api_key">>, <<JStr("k1")>>)>>,
     <<"kimi", Dict(<<"api_key">>, <<JStr("k2")>>)>>,
     <<"kimi", Dict(<<"model">>, <<JStr("m")>>)>>,
     <<"custom", Dict(<<"api_key">>, <<JStr("k3")>>)>>}

Call(op, provider, settings, result) ==
    [op |-> op, provider |-> provider, settings |-> settings, result |-> result]

InitConfig ==
    /\ InitPipe
    /\ PathIdle
    /\ FmtIdle
    /\ ExportIdle
    /\ HistIdle
    /\ ProseIdle
    /\ cfg_pc = "ready"
    /\ config_file \in {JMissing, CorruptConfig, SavedConfig}
    /\ env_file \in {JMissing, OwnEnv}
    /\ default_config = BuiltinConfig
    /\ writable \in {{"config", "env"}, {}}
    /\ calls = <<>>

CanCall == cfg_pc = "ready" /\ Len(calls) < MaxCalls

\* load_config(), lines 70-88
LoadConfig ==
    /\ CanCall
    /\ LET loaded == load_config(config_file, default_config)
       IN /\ default_config' = loaded.defaults
          /\ calls' = Append(calls, Call("load_config", "", EmptyDict, loaded.config))
    /\ UNCHANGED <<cfg_pc, config_file, env_file, writable>>
    /\ UNCHANGED <<cursorVars, histVars, proseVars>>

\* is_configured(), lines 104-129
IsConfigured ==
    /\ CanCall
    /\ LET loaded == load_config(config_file, default_config)
       IN /\ default_config' = loaded.defaults
          /\ calls' = Append(calls, Call("is_configured", "", EmptyDict,
                                         PyBool(is_configured(loaded.config, JNull))))
    /\ UNCHANGED <<cfg_pc, config_file, env_file, writable>>
    /\ UNCHANGED <<cursorVars, histVars, proseVars>>

\* set_provider_config(provider, **settings), lines 159-181
SetProviderConfig ==
    /\ CanCall
    /\ \E given \in ProviderArgs :
          LET after == set_provider_config(given[1], given[2], config_file, env_file,
                                           default_config, writable)
          IN /\ config_file' = after.file
             /\ env_file' = after.env
             /\ default_config' = after.defaults
             /\ calls' = Append(calls, Call("set_provider_config", given[1], given[2],
                                            PyBool(after.result)))
    /\ UNCHANGED <<cfg_pc, writable>>
    /\ UNCHANGED <<cursorVars, histVars, proseVars>>

\* get_default_provider(), lines 183-192
GetDefaultProvider ==
    /\ CanCall
    /\ LET found == get_default_provider(config_file, env_file, default_config)
       IN /\ default_config' = found.defaults
          /\ calls' = Append(calls, Call("get_default_provider", "", EmptyDict,
                                         found.result))
    /\ UNCHANGED <<cfg_pc, config_file, env_file, writable>>
    /\ UNCHANGED <<cursorVars, histVars, proseVars>>

\* reset_config(), lines 292-302
ResetConfig ==
    /\ CanCall
    /\ LET after == reset_config(config_file, "config" \in writable)
       IN /\ config_file' = after.file
          /\ calls' = Append(calls, Call("reset_config", "", EmptyDict, PyBool(after.ok)))
    /\ UNCHANGED <<cfg_pc, env_file, default_config, writable>>
    /\ UNCHANGED <<cursorVars, histVars, proseVars>>

NextConfig ==
    LoadConfig \/ IsConfigured \/ SetProviderConfig \/ GetDefaultProvider \/ ResetConfig

SpecConfig == InitConfig /\ [][NextConfig]_vars

----------------------------------------------------------------------------
(* generate_standalone_markdown: one message laid out *)

ProseVocab ==
    {"", "plain text  ", "x = 1", "let x = 1", "def f():", "  }", "# note", "call(f(x))",
     Fence}

RECURSIVE JoinLines(_, _)
JoinLines(lines, i) ==
    IF i > Len(lines) THEN ""
    ELSE lines[i] \o (IF i < Len(lines) THEN "\n" ELSE "") \o JoinLines(lines, i + 1)

InitProse ==
    /\ InitPipe
    /\ PathIdle
    /\ FmtIdle
    /\ ExportIdle
    /\ HistIdle
    /\ CfgIdle
    /\ prose_pc = "call"
    /\ \E n \in 0..MaxProse :
          \E lines \in [1..n -> ProseVocab] : prose_content = JoinLines(lines, 1)
    /\ markdown_lines = <<>>

\* lines 651-697 for one message
LayOutMessage ==
    /\ prose_pc = "call"
    /\ markdown_lines' = MessageBody(TextMessage(prose_content))
    /\ prose_pc' = "returned"
    /\ UNCHANGED prose_content
    /\ UNCHANGED <<cursorVars, histVars, cfgVars>>

NextProse == LayOutMessage

SpecProse == InitProse /\ [][NextProse]_vars

----------------------------------------------------------------------------
(* What the stores of a run contain, for the statements below *)

Done == pc = "done"

RECURSIVE CidsOfItems(_, _)
CidsOfItems(items, i) ==
    IF i > Len(items) THEN {} ELSE {items[i].cid} \cup CidsOfItems(items, i + 1)

\* the messages a reader's tuples carry for cid, in order
RECURSIVE MessagesFor(_, _, _)
MessagesFor(items, cid, i) ==
    IF i > Len(items) THEN <<>>
    ELSE (IF items[i].cid = cid THEN <<Message(items[i].role, items[i].text)>> ELSE <<>>)
         \o MessagesFor(items, cid, i + 1)

\* the conversation ids a workspace store makes known: by its metadata or by
\* its messages
DiscoveredIn(store) ==
    DOMAIN workspace_info(store).meta
    \cup CidsOfItems(iter_chat_from_item_table(store).items, 1)

\* the workspaces, by position in processing order, in which cid is discovered
WorkspacesOf(cid) == {k \in DOMAIN wsSeen : cid \in DiscoveredIn(wsSeen[k])}

\* the messages of the conversation lists of the composerData entries of cid
RECURSIVE ConversationMessages(_, _, _)
ConversationMessages(rows, cid, i) ==
    IF i > Len(rows) THEN <<>>
    ELSE (IF rows[i].cid = cid /\ rows[i].raw = "obj"
          THEN ScanConversation(rows[i].conversation, 1, Touch(<<>>, cid, ""),
                                cid, "")[1].messages
          ELSE <<>>)
         \o ConversationMessages(rows, cid, i + 1)

\* the sources of a run: every workspace store, the bubble entries of the
\* global store, the composerData entries of the global store
Sources ==
    {<<"ws", k>> : k \in DOMAIN wsSeen} \cup
    {<<"bubbles", k>> : k \in DOMAIN globalSeen} \cup
    {<<"composerData", k>> : k \in DOMAIN globalSeen}

SourceMessages(src, cid) ==
    CASE src[1] = "ws" ->
           MessagesFor(iter_chat_from_item_table(wsSeen[src[2]]).items, cid, 1)
      [] src[1] = "bubbles" ->
           MessagesFor(iter_bubbles_from_disk_kv(globalSeen[src[2]]).items, cid, 1)
      [] OTHER ->
           IF globalSeen[src[2]].hasDiskKV
           THEN ConversationMessages(globalSeen[src[2]].composers, cid, 1)
           ELSE <<>>

Count(seq, x) == Cardinality({i \in DOMAIN seq : seq[i] = x})

OutIds == {out[i].session.composerId : i \in DOMAIN out}

----------------------------------------------------------------------------
(* C1: no record of the list returned by extract_chats has an empty message
   list; an id that was touched but received no message is not emitted. *)
C1_NoEmptyRecord ==
    \A i \in DOMAIN out : out[i].messages # <<>>

\* a run that returned records although one id was touched by a composerData
\* entry without messages and another is known by its metadata only
C1_Witness ==
    /\ Done
    /\ out # <<>>
    /\ \E i \in DOMAIN sessions : sessions[i].messages = <<>>
    /\ \E c \in DOMAIN comp_meta :
          /\ c \notin OutIds
          /\ FindSession(sessions, c, 1) = 0

(* C2: no two records of the returned list have the same conversation id; an
   id met again in a later store adds to the existing record. *)
C2_UniqueIds ==
    \A i, k \in DOMAIN out :
        i # k => out[i].session.composerId # out[k].session.composerId

\* one id with messages in both workspace stores and in the global store
C2_Witness ==
    /\ Done
    /\ \E c \in OutIds :
          /\ \A src \in Sources : SourceMessages(src, c) # <<>>
          /\ Len(wsSeen) = Len(WsOrder)
          /\ globalSeen # <<>>

(* C3: the returned list is ordered non-increasing by lastUpdatedAt, a missing
   or None lastUpdatedAt counting as lower than any real timestamp: every
   record without a timestamp comes after every record with one. *)
C3_SortedMissingLast ==
    \A i, k \in DOMAIN out :
        i < k =>
          LET a == out[i].session.lastUpdatedAt
              b == out[k].session.lastUpdatedAt
          IN /\ ~(a.k # "num" /\ b.k = "num")
             /\ (a.k = "num" /\ b.k = "num") => a.n >= b.n

(* C4: for an id that occurs in more than one source, a message present in
   two of the sources appears only once in the assembled record. *)
C4_NoDuplicateAcrossSources ==
    \A i \in DOMAIN out :
        LET c == out[i].session.composerId
        IN \A s1, s2 \in Sources :
             s1 # s2 =>
               \A m \in {SourceMessages(s1, c)[x] : x \in DOMAIN SourceMessages(s1, c)} :
                  (/\ Count(SourceMessages(s1, c), m) = 1
                   /\ Count(SourceMessages(s2, c), m) = 1
                   /\ \A s3 \in Sources : Count(SourceMessages(s3, c), m) <= 1)
                  => Count(out[i].messages, m) = 1

(* C5: one bad record never aborts extraction: extract_chats raises nothing,
   whatever malformed records the stores hold next to the valid ones. *)
C5_NeverAborts ==
    pc # "raised"

(* C6: a reader yields an empty sequence and raises nothing when the store
   has no matching record, when its table does not exist, or when the key is
   absent; the run does not stop at such a store. *)
NothingToRead(store) ==
    \/ ~store.hasItemTable
    \/ /\ store.composerData.raw = "absent"
       /\ store.chatdata.raw = "absent"
       /\ store.prompts.raw = "absent"
       /\ store.generations.raw = "absent"

C6_EmptyReaders ==
    /\ \A k \in DOMAIN wsSeen :
          NothingToRead(wsSeen[k]) =>
             /\ iter_chat_from_item_table(wsSeen[k]) = Nothing
             /\ (k = Len(wsSeen) /\ globalSeen = <<>>) => pc # "raised"
    /\ \A k \in DOMAIN globalSeen :
          LET g == globalSeen[k]
          IN /\ (~g.hasDiskKV \/ g.bubbles = <<>>) =>
                  iter_bubbles_from_disk_kv(g) = Nothing
             /\ (~g.hasDiskKV \/ g.composers = <<>>) =>
                  iter_composer_data(g) = Nothing
             /\ (~g.hasDiskKV \/ (g.bubbles = <<>> /\ g.composers = <<>>)) =>
                  pc # "raised"

\* a finished run over a workspace store without ItemTable, one with an
\* ItemTable holding none of the keys, and a global store without cursorDiskKV
C6_Witness ==
    /\ Done
    /\ \E k \in DOMAIN wsSeen : ~wsSeen[k].hasItemTable
    /\ \E k \in DOMAIN wsSeen : wsSeen[k].hasItemTable /\ NothingToRead(wsSeen[k])
    /\ globalSeen # <<>> /\ ~globalSeen[1].hasDiskKV

(* C7: in every returned record every message has role "user" or "assistant"
   and a content that is a string. *)
C7_RolesAndContents ==
    \A i \in DOMAIN out :
        \A x \in DOMAIN out[i].messages :
            /\ out[i].messages[x].role \in {"user", "assistant"}
            /\ IsStr(out[i].messages[x].content)

(* C8: a conversation discovered in a workspace store is emitted with that
   workspace's id and project; one that occurs only in the global store is
   emitted with workspace_id "(global)" and the unknown project. *)
C8_WorkspaceOfRecord ==
    \A i \in DOMAIN out :
        LET c == out[i].session.composerId
        IN IF WorkspacesOf(c) # {}
           THEN \E k \in WorkspacesOf(c) :
                   /\ out[i].workspace_id = wsSeen[k].id
                   /\ out[i].project = workspace_info(wsSeen[k]).proj
           ELSE /\ out[i].workspace_id = "(global)"
                /\ out[i].project = UnknownProject

\* a record of a workspace whose id also has messages in the global store,
\* next to a record found in the global store only
C8_Witness ==
    /\ Done
    /\ \E i, k \in DOMAIN out :
          /\ out[i].workspace_id = "(global)"
          /\ WorkspacesOf(out[i].session.composerId) = {}
          /\ WorkspacesOf(out[k].session.composerId) # {}
          /\ out[k].project # UnknownProject
          /\ SourceMessages(<<"bubbles", 1>>, out[k].session.composerId) # <<>>

(* C9: when an id occurs in more than one workspace store, the record's
   workspace_id, project and session metadata are those of the first
   workspace store, in processing order, in which the id occurs. *)
FirstWorkspaceOf(c) == CHOOSE k \in WorkspacesOf(c) : \A k2 \in WorkspacesOf(c) : k <= k2

MetaGivenBy(store, c) == Lookup(workspace_info(store).meta, c, DefaultMeta(c))

C9_FirstWorkspaceWins ==
    \A i \in DOMAIN out :
        LET c == out[i].session.composerId
        IN Cardinality(WorkspacesOf(c)) > 1 =>
             LET first == wsSeen[FirstWorkspaceOf(c)]
             IN /\ out[i].workspace_id = first.id
                /\ out[i].project = workspace_info(first).proj
                /\ out[i].session.title = MetaGivenBy(first, c).title
                /\ out[i].session.createdAt = MetaGivenBy(first, c).createdAt
                /\ out[i].session.lastUpdatedAt = MetaGivenBy(first, c).lastUpdatedAt

(* C10: for a path that consists of a user-home segment ("Users" or "home")
   followed by exactly one username segment and nothing beyond it, the label
   is "Home Directory", whichever username the path names. *)
PathParts == NonEmptyParts(root_path, 1)

EndsAtUsername ==
    /\ Len(PathParts) >= 2
    /\ UsernameIndex(PathParts) = Len(PathParts) - 1

C10_HomeDirectoryAnyUser ==
    (path_pc = "returned" /\ EndsAtUsername) => project_name = "Home Directory"

(* C11: for a path with a user-home segment and at least one segment after
   the username, the label is never one of the container names and never the
   current OS username. *)
AfterUsername ==
    /\ UsernameIndex(PathParts) >= 0
    /\ UsernameIndex(PathParts) + 1 < Len(PathParts)

C11_NeverContainerNorUsername ==
    (path_pc = "returned" /\ AfterUsername) =>
        /\ project_name \notin project_containers
        /\ project_name # current_username

(* C12, as stated: for a path with no "Users" or "home" segment the label is
   the last non-empty segment, "Root" when there is none, also when that
   segment equals the current OS username. *)
LastSegment == Part(PathParts, Len(PathParts) - 1)

NoHomeSegment == UsernameIndex(PathParts) = -1

C12_LastSegmentAlways ==
    (path_pc = "returned" /\ NoHomeSegment) =>
        project_name = IF PathParts = <<>> THEN "Root" ELSE LastSegment

(* C12, amended: for a path with no "Users" or "home" segment the label is
   "Root" when the path has no non-empty segment, "Home Directory" when the
   last non-empty segment equals the current OS username, and that last
   segment otherwise. *)
C12_LastSegmentUnlessUsername ==
    (path_pc = "returned" /\ NoHomeSegment) =>
        project_name = IF PathParts = <<>> THEN "Root"
                       ELSE IF LastSegment = current_username THEN "Home Directory"
                       ELSE LastSegment

C12_Witness ==
    /\ path_pc = "returned"
    /\ NoHomeSegment
    /\ PathParts # <<>>
    /\ LastSegment = current_username
    /\ project_name = "Home Directory"

(* C13: for a path with a user-home segment and at least one segment after
   the username the candidate is (1) the deepest segment after the username
   that is a known project, (2) else the segment after "codebase" when the
   path has a "Documents" and a "codebase" segment and a segment follows
   "codebase", (3) else the last segment; a candidate that is neither a
   container name nor the current username is the label returned. *)
KnownAfterUsername ==
    {i \in (UsernameIndex(PathParts) + 1)..(Len(PathParts) - 1) :
        Part(PathParts, i) \in known_projects}

Deepest(S) == CHOOSE i \in S : \A k \in S : k <= i

C13_Candidate ==
    IF KnownAfterUsername # {} THEN Part(PathParts, Deepest(KnownAfterUsername))
    ELSE IF /\ InParts(PathParts, "Documents")
            /\ InParts(PathParts, "codebase")
            /\ IndexOf(PathParts, "codebase") + 1 < Len(PathParts)
         THEN Part(PathParts, IndexOf(PathParts, "codebase") + 1)
         ELSE LastSegment

C13_CandidateReturned ==
    (path_pc = "returned" /\ AfterUsername) =>
        ((C13_Candidate \notin project_containers /\ C13_Candidate # current_username)
            => project_name = C13_Candidate)

C13_Witness ==
    /\ path_pc = "returned"
    /\ root_path \in ScenarioPaths
    /\ current_username = "alice"
    /\ project_name = "myproj"

(* C14: no call raises, and every call returns a non-empty label, which is
   "Unknown Project" when lines 203-292 derive no name. *)
C14_NeverFails ==
    /\ path_pc # "raised"
    /\ path_pc = "returned" =>
          /\ project_name # ""
          /\ DerivedName(root_path, current_username) = "" =>
                project_name = "Unknown Project"

\* a path of separators only, and a path whose last segment is a container
C14_Witness ==
    /\ path_pc = "returned"
    /\ \/ Len(root_path) >= 3 /\ PathParts = <<>> /\ project_name = "Root"
       \/ PathParts # <<>> /\ LastSegment \in project_containers /\ project_name # ""

----------------------------------------------------------------------------
(* What a generator was given, for the statements below *)

GivenProject  == Get(DGet(gen_input, "project"), EmptyDict)
GivenMessages == Get(DGet(gen_input, "messages"), EmptyList)
Generated     == fmt_pc \in {"markdown", "html"}

\* the record's createdAt, JMissing when it has none
CreatedAtOf(record) ==
    IF IsDict(DGet(record, "session")) THEN DGet(DGet(record, "session"), "createdAt")
    ELSE JMissing

\* the text a generator lays out for a string
LaidOut(text) == IF fmt_pc = "markdown" THEN Strip(text) ELSE EscapeHtml(text)

(* C15: for a record whose project is a dict and whose messages are dicts,
   both generators raise nothing, render every message whose content is a
   number, None, a list or an object as "Content unavailable", and render
   the messages with a non-empty string content with that content. *)
C15_NonStringContentUnavailable ==
    (/\ Generated
     /\ IsDict(GivenProject)
     /\ IsList(GivenMessages)
     /\ \A i \in DOMAIN GivenMessages.items : IsDict(GivenMessages.items[i])) =>
        /\ ~fmt_result.value.error
        /\ \A i \in DOMAIN GivenMessages.items :
              LET content == DGet(GivenMessages.items[i], "content")
                  text    == fmt_result.value.messages[i].text
              IN /\ content.k \in {"num", "null", "list", "dict"} =>
                        text = "Content unavailable"
                 /\ (content.k = "str" /\ content.s # "") => text = LaidOut(content.s)

(* C16: no formatter raises; a generator returns the error document of its
   format exactly when generation meets an exception (a project that is not
   a dict, a message list without a length, a message that is not a dict, a
   content without a length), and format_chat_for_export returns the error
   object when the conversion of createdAt overflows. *)
GenerationFails ==
    \/ ~IsDict(GivenProject)
    \/ ~HasLen(GivenMessages)
    \/ \E i \in DOMAIN Iterate(GivenMessages) :
          LET msg == Iterate(GivenMessages)[i]
          IN \/ ~IsDict(msg)
             \/ Get(DGet(msg, "content"), JStr("")).k \in {"num", "float", "big", "null"}

C16_ErrorDocumentNotException ==
    /\ fmt_pc # "raised"
    /\ Generated =>
          /\ fmt_result.value.format = fmt_pc
          /\ fmt_result.value.error <=> GenerationFails
          /\ fmt_result.value.error => fmt_result.caught # NoExc
    /\ fmt_pc = "formatted" =>
          /\ IsDict(formatted.value)
          /\ CreatedAtOf(fmt_chat) = JBig =>
                /\ formatted.caught = "OverflowError"
                /\ formatted.value = ErrorObject(now, "uuid-2")

C16_Witness ==
    /\ fmt_pc = "html"
    /\ IsDict(GivenProject)
    /\ IsList(GivenMessages)
    /\ \E i \in DOMAIN GivenMessages.items : ~IsDict(GivenMessages.items[i])
    /\ fmt_result.value = ErrorDocument("html", "AttributeError")

(* C17, as stated: for every assembled record, the decoded document has the
   record's messages, project, conversation id and workspace id. *)
Assembled(record) ==
    /\ IsDict(DGet(record, "project"))
    /\ IsDict(DGet(record, "session"))
    /\ IsStr(DGet(DGet(record, "session"), "composerId"))
    /\ IsStr(DGet(record, "workspace_id"))
    /\ IsList(DGet(record, "messages"))
    /\ DGet(record, "messages").items # <<>>
    /\ \A i \in DOMAIN DGet(record, "messages").items :
          LET msg == DGet(record, "messages").items[i]
          IN IsDict(msg) /\ msg.keys = <<"role", "content">>

Decoded == fmt_pc \in {"loaded", "raised"} /\ json_text # ""

SameRecord ==
    /\ fmt_pc = "loaded"
    /\ DGet(fmt_result.value, "messages") = DGet(fmt_chat, "messages")
    /\ DGet(fmt_result.value, "project") = DGet(fmt_chat, "project")
    /\ DGet(fmt_result.value, "session_id") = DGet(DGet(fmt_chat, "session"), "composerId")
    /\ DGet(fmt_result.value, "workspace_id") = DGet(fmt_chat, "workspace_id")

C18_DateFromCreatedAt ==
    fmt_pc = "formatted" =>
        /\ CreatedAtOf(fmt_chat).k = "num" =>
              DGet(formatted.value, "date") = JFloat(CreatedAtOf(fmt_chat).n)
        /\ DGet(formatted.value, "date") = JNum(now) =>
              CreatedAtOf(fmt_chat).k \in {"missing", "null"}

----------------------------------------------------------------------------
(* C19: for a store that holds a prompts list and a generations list, the
   messages the Item-table reader yields under "aiService_combined" are the
   non-empty prompt texts as "user", in stored order, followed by the
   non-empty generation texts as "assistant", in stored order; so no
   assistant message of the store precedes a user message of the store. *)
RECURSIVE NonEmptyTexts(_, _, _)
NonEmptyTexts(entries, i, role) ==
    IF i > Len(entries) THEN <<>>
    ELSE (IF /\ entries[i].isDict
             /\ IsStr(entries[i].text)
             /\ Strip(entries[i].text.s) # ""
          THEN <<Message(role, JStr(Strip(entries[i].text.s)))>>
          ELSE <<>>) \o NonEmptyTexts(entries, i + 1, role)

HoldsBothLists(store) ==
    /\ store.hasItemTable
    /\ store.prompts.raw = "list"
    /\ store.generations.raw = "list"

C19_PromptsThenGenerations ==
    \A k \in DOMAIN wsSeen :
        HoldsBothLists(wsSeen[k]) =>
            MessagesFor(iter_chat_from_item_table(wsSeen[k]).items, "aiService_combined", 1)
              = NonEmptyTexts(wsSeen[k].prompts.items, 1, "user")
                \o NonEmptyTexts(wsSeen[k].generations.items, 1, "assistant")

\* the same for the stores whose texts are all strings
C19_WhenTextsAreStrings ==
    \A k \in DOMAIN wsSeen :
        (/\ HoldsBothLists(wsSeen[k])
         /\ iter_chat_from_item_table(wsSeen[k]).raised = NoExc) =>
            MessagesFor(iter_chat_from_item_table(wsSeen[k]).items, "aiService_combined", 1)
              = NonEmptyTexts(wsSeen[k].prompts.items, 1, "user")
                \o NonEmptyTexts(wsSeen[k].generations.items, 1, "assistant")

----------------------------------------------------------------------------
(* C20: in a batch export (more than one session selected) nothing stops
   the loop: export_chat_to_file is attempted once for every selected
   session, in order, every attempt is reported as a success or as a
   failure, and export_chats returns 0. *)
EveryAttemptReported ==
    /\ Len(attempts) = Len(selected)
    /\ \A i \in DOMAIN attempts :
          /\ attempts[i].i = i
          /\ attempts[i].report = IF selected[i].writable THEN "success" ELSE "failed"

C20_BatchAttemptsEverySession ==
    Len(selected) > 1 =>
        /\ exp_pc # "raised"
        /\ exp_pc = "returned" => (exit_code = 0 /\ EveryAttemptReported)

\* the same for the runs in which only the writing of a file fails
C20_WhenOnlyWritingFails ==
    (/\ Len(selected) > 1
     /\ \A i \in DOMAIN selected : TimestampRaises(selected[i].record) = NoExc) =>
        /\ exp_pc # "raised"
        /\ exp_pc = "returned" => (exit_code = 0 /\ EveryAttemptReported)

----------------------------------------------------------------------------
(* The filters of export *)

\* the conversation id of an extracted session
ConversationId(c) == DGet(Get(DGet(c.record, "session"), EmptyDict), "composerId").s

IdStartsWith(list, prefix) ==
    SelectSeq(list, LAMBDA c : StartsWith(ConversationId(c), prefix))

\* C21: with a session-id filter P and no other filter, the sessions selected
\* are exactly the extracted sessions whose conversation id starts with P, and
\* the run is refused for that filter only when no extracted session has such
\* an id
C21_SessionIdFilterSelects ==
    (/\ exp_pc # "called"
     /\ chats # <<>>
     /\ Bool(args.session_id)
     /\ args = [NoArgs EXCEPT !.session_id = args.session_id]) =>
        LET matching == IdStartsWith(chats, args.session_id.s)
        IN IF matching = <<>>
           THEN refused = "No chat records found with session ID"
           ELSE refused = "" /\ selected = matching

\* the first n items of a list, none when n is not positive
FirstN(list, n) ==
    SubSeq(list, 1, IF n <= 0 THEN 0 ELSE IF n < Len(list) THEN n ELSE Len(list))

\* C23: with a count limit N, for every integer N, the sessions exported are
\* the first N of the filtered sessions, at most N of them
C23_LimitExportsFirstN ==
    (exp_pc # "called" /\ refused = "" /\ args.limit # JNull) =>
        LET filtered == ByProject(BySessionId(chats, args), args, current_project)
        IN /\ selected = FirstN(filtered, args.limit.n)
           /\ exp_pc = "returned" =>
                 [i \in DOMAIN attempts |-> selected[attempts[i].i]]
                     = FirstN(filtered, args.limit.n)

\* the same for the limits that are positive
C23_WhenLimitIsPositive ==
    (exp_pc # "called" /\ refused = "" /\ args.limit # JNull /\ args.limit.n > 0) =>
        LET filtered == ByProject(BySessionId(chats, args), args, current_project)
        IN /\ selected = FirstN(filtered, args.limit.n)
           /\ exp_pc = "returned" =>
                 [i \in DOMAIN attempts |-> selected[attempts[i].i]]
                     = FirstN(filtered, args.limit.n)

----------------------------------------------------------------------------
(* The history exporter and its upload *)

UploadSent == \E i \in DOMAIN sent : sent[i].url = "/api/upload"

\* the login request failed: no connection, or an error status
AuthenticationFailed == auth_response \in {"ConnectionError", "HTTPError"}

UploadCalled == upload_result # ""

RECURSIVE EntriesOf(_, _, _)
EntriesOf(file, i, acc) ==
    IF i > Len(file.lines) THEN acc
    ELSE LET parsed == Loads(Strip(file.lines[i]))
         IN EntriesOf(file, i + 1,
                IF Strip(file.lines[i]) = "" \/ parsed.raised # NoExc THEN acc
                ELSE Append(acc, IF IsDict(parsed.value)
                                 THEN DSet(parsed.value, "_source_file", JStr(file.path))
                                 ELSE parsed.value))

\* the lines of a file that are neither blank nor JSON
RECURSIVE InvalidLinesOf(_, _, _)
InvalidLinesOf(file, i, acc) ==
    IF i > Len(file.lines) THEN acc
    ELSE InvalidLinesOf(file, i + 1,
            IF Strip(file.lines[i]) # "" /\ Loads(Strip(file.lines[i])).raised # NoExc
            THEN Append(acc, <<file.path, i>>) ELSE acc)

RECURSIVE Concat(_, _)
Concat(seqs, i) == IF i > Len(seqs) THEN <<>> ELSE seqs[i] \o Concat(seqs, i + 1)

\* every file is read, every file can be read
WholeHistoryRead ==
    /\ hist_pc \in {"exported", "returned", "raised"}
    /\ ~cli.summary
    /\ history_dir.exists
    /\ cli.limit = JNull
    /\ \A i \in DOMAIN history_dir.files : history_dir.files[i].readable

LinesExported ==
    LET files   == history_dir.files
        entries == Concat([i \in DOMAIN files |-> EntriesOf(files[i], 1, <<>>)], 1)
    IN /\ history_export.raised \in {NoExc, "OSError"}
       /\ history_export.warnings
             = Concat([i \in DOMAIN files |-> InvalidLinesOf(files[i], 1, <<>>)], 1)
       /\ (out_writable /\ entries # <<>>) => history_export.written = entries

\* C24: each non-blank line of a history file that is JSON, whatever its
\* value, is exported; each line that is not JSON is skipped with a warning;
\* the entries keep the order of the files and of their lines; no line makes
\* export_history raise
C24_EveryJsonLineExported == WholeHistoryRead => LinesExported

\* the same when every line that is JSON is an object
C24_WhenLinesAreObjects ==
    (/\ WholeHistoryRead
     /\ \A i \in DOMAIN history_dir.files :
           \A k \in DOMAIN history_dir.files[i].lines :
              LET parsed == Loads(Strip(history_dir.files[i].lines[k]))
              IN parsed.raised = NoExc => IsDict(parsed.value)) => LinesExported

----------------------------------------------------------------------------
(* The configuration manager *)

HasApiKey(call) ==
    call.op = "set_provider_config" /\ Bool(DGet(call.settings, "api_key"))

\* the call before the n-th call was a reset_config that returned True
AfterReset(n) ==
    /\ n > 1
    /\ calls[n - 1].op = "reset_config"
    /\ calls[n - 1].result = PyBool(TRUE)

BuiltinDefaults(config) ==
    /\ DGet(config, "default_provider") = JNull
    /\ \A i \in DOMAIN DGet(config, "providers").vals :
          DGet(DGet(config, "providers").vals[i], "api_key") = JNull

\* C25: after reset_config returned True, load_config returns the built-in
\* defaults (no default provider, no api_key for any provider) and
\* is_configured() returns False, whatever calls came before
C25_ResetRestoresDefaults ==
    \A n \in DOMAIN calls :
        AfterReset(n) =>
            /\ calls[n].op = "load_config" => BuiltinDefaults(calls[n].result)
            /\ calls[n].op = "is_configured" => calls[n].result = PyBool(FALSE)

\* the same for a manager that nothing but reset_config was called on before
C25_WhenOnlyResetCameBefore ==
    \A n \in DOMAIN calls :
        (AfterReset(n) /\ \A i \in 1..(n - 1) : calls[i].op = "reset_config") =>
            /\ calls[n].op = "load_config" => calls[n].result = BuiltinConfig
            /\ calls[n].op = "is_configured" => calls[n].result = PyBool(FALSE)

\* C26: after set_provider_config(A, api_key=...) and then
\* set_provider_config(B, api_key=...) for another provider B, both
\* successful, get_default_provider still returns A
C26_FirstProviderStaysDefault ==
    \A n \in DOMAIN calls :
        (/\ n > 2
         /\ HasApiKey(calls[n - 2]) /\ calls[n - 2].result = PyBool(TRUE)
         /\ HasApiKey(calls[n - 1]) /\ calls[n - 1].result = PyBool(TRUE)
         /\ calls[n - 2].provider # calls[n - 1].provider
         /\ calls[n].op = "get_default_provider") =>
            calls[n].result = JStr(calls[n - 2].provider)

----------------------------------------------------------------------------
(* The global store after the workspace stores *)

IsPrefix(a, b) == Len(a) <= Len(b) /\ SubSeq(b, 1, Len(a)) = a

\* the conversation ids registered while a workspace store was processed
RegisteredByWorkspace == {c \in DOMAIN comp2ws : comp2ws[c] # "(global)"}

\* what a step that processes the global store keeps
OnlyAppends ==
    pc \in {"bubbles", "composer"} =>
        /\ ws_proj' = ws_proj
        /\ \A c \in RegisteredByWorkspace :
              /\ c \in DOMAIN comp_meta'
              /\ comp_meta'[c] = comp_meta[c]
              /\ comp2ws'[c] = comp2ws[c]
        /\ Len(sessions) <= Len(sessions')
        /\ \A i \in DOMAIN sessions :
              /\ sessions'[i].cid = sessions[i].cid
              /\ sessions'[i].db_path = sessions[i].db_path
              /\ IsPrefix(sessions[i].messages, sessions'[i].messages)

\* C27: a step that processes the global store (its bubbles, its composerData
\* entries) leaves the workspace id, the project and the session metadata of
\* every conversation id registered by a workspace store as they were, and
\* only appends messages to the records
C27_GlobalStoreOnlyAppends == [][OnlyAppends]_vars

\* a record of a workspace that received messages from the bubbles and from a
\* composerData entry whose createdAt is not the record's
C27_Witness ==
    /\ Done
    /\ globalSeen # <<>>
    /\ \E i \in DOMAIN out :
          LET c == out[i].session.composerId
          IN /\ WorkspacesOf(c) # {}
             /\ out[i].workspace_id # "(global)"
             /\ SourceMessages(<<"bubbles", 1>>, c) # <<>>
             /\ \E k \in DOMAIN globalSeen[1].composers :
                   LET e == globalSeen[1].composers[k]
                   IN /\ e.cid = c
                      /\ e.raw = "obj"
                      /\ e.createdAt.k = "num"
                      /\ e.createdAt # out[i].session.createdAt
                      /\ e.conversation # <<>>

\* the conversations that no workspace store names and a bubble of the
\* global store gives a message to
BubbleFirst(c) ==
    /\ WorkspacesOf(c) = {}
    /\ globalSeen # <<>>
    /\ SourceMessages(<<"bubbles", 1>>, c) # <<>>

NoTimestamps(record) ==
    /\ record.session.createdAt = JNull
    /\ record.session.lastUpdatedAt = JNull

\* C28: a conversation found only in the global store that has a bubble
\* yielding a message is returned with createdAt None and lastUpdatedAt None,
\* whatever createdAt its composerData entry carries, and after every record
\* that has a timestamp
C28_BubbleFirstLeavesNoTimestamp ==
    \A i \in DOMAIN out :
        BubbleFirst(out[i].session.composerId) =>
            /\ NoTimestamps(out[i])
            /\ \A k \in DOMAIN out : out[k].session.lastUpdatedAt.k = "num" => k < i

\* the same without the order of the list
C28_WithoutTheOrder ==
    \A i \in DOMAIN out :
        BubbleFirst(out[i].session.composerId) => NoTimestamps(out[i])

----------------------------------------------------------------------------
(* The fences of a message *)

\* the lines laid out for the message, without the separator after it
BodyLines == SubSeq(markdown_lines, 1, Len(markdown_lines) - 3)

FencesAt == {i \in DOMAIN BodyLines : BodyLines[i] = Fence}

\* an odd number of fence lines precedes the i-th line
InsideFence(i) == Cardinality({k \in FencesAt : k < i}) % 2 = 1

\* the lines of the content as the formatter reads them
ContentLines ==
    LET lines == SplitLines(WStrip(ContentOrUnavailable(TextMessage(prose_content))))
    IN [i \in DOMAIN lines |-> WRStrip(lines[i])]

\* C29: for a content without a triple backtick the fence lines are balanced:
\* their number is even (no fence stays open at the end), the other lines
\* are the lines of the content in order, every line classified as code lies
\* inside a fence and every other line outside
C29_FencesBalanced ==
    (prose_pc = "returned" /\ ~Contains(prose_content, Fence)) =>
        /\ Cardinality(FencesAt) % 2 = 0
        /\ SelectSeq(BodyLines, LAMBDA line : line # Fence) = ContentLines
        /\ \A i \in DOMAIN BodyLines \ FencesAt :
              InsideFence(i) <=> IsCodeLine(BodyLines[i])

\* two blocks of code with prose between them, the second at the end
C29_Witness ==
    /\ prose_pc = "returned"
    /\ ~Contains(prose_content, Fence)
    /\ Cardinality(FencesAt) = 4
    /\ BodyLines[Len(BodyLines)] = Fence
    /\ IsCodeLine(BodyLines[Len(BodyLines) - 1])

----------------------------------------------------------------------------
(* The files of a batch *)

\* C30: the files that one batch export writes, or tries to write, have
\* pairwise distinct names, whatever the projects and the timestamps of the
\* selected sessions
C30_BatchNamesDistinct ==
    Len(selected) > 1 =>
        \A i, k \in DOMAIN attempts : i # k => attempts[i].path # attempts[k].path

\* a finished batch with two sessions of one project created at the same time
C30_Witness ==
    /\ exp_pc = "returned"
    /\ Len(attempts) > 1
    /\ \E i, k \in DOMAIN attempts :
          /\ i # k
          /\ ProjectNameOf(selected[i].record) = ProjectNameOf(selected[k].record)
          /\ DateTimestamp(selected[i].record) = DateTimestamp(selected[k].record)
          /\ DateTimestamp(selected[i].record) = JNum(1500)
          /\ attempts[i].report = "success"
          /\ attempts[k].report = "success"

====
